---- MODULE Spec2Model ----
(***************************************************************************)
(* A model of the multi-app ingestion pipeline of finn-lens:               *)
(*   - MultiAppManager.parseAllAppData  (src/src/services/MultiAppManager) *)
(*   - BhimAdapter.parse and its two format parsers                        *)
(*                                      (src/src/adapters/bhim/BhimAdapter)*)
(*   - categorizeTransaction            (src/src/utils/categoryUtils)      *)
(*   - the year and app filters         (src/src/utils/dateUtils,          *)
(*                                       src/unnamed/part_000)             *)
(*   - a Google Pay archive through processFile, GooglePayAdapter and the  *)
(*     merge                            (src/unnamed/part_001)             *)
(*   - GooglePayAdapter.extract on a JSON entry (src/unnamed/part_001)     *)
(*   - MultiAppManager.processFile      (src/src/services/MultiAppManager) *)
(*   - the data store useDataStore      (src/unnamed/part_001)             *)
(*   - BhimAdapter.detect               (src/src/adapters/bhim/BhimAdapter)*)
(* Each part has its own specification (SpecMerge, SpecBhim, SpecCat,      *)
(* SpecFilter, SpecGp, SpecJson, SpecPf, SpecStore, SpecDet); the          *)
(* variables of the other parts stay at their initial value.               *)
(***************************************************************************)
EXTENDS Integers, Sequences, FiniteSets, TLC

VARIABLES
    \* ---- MultiAppManager.parseAllAppData ----
    rawDataByApp,   \* the Map<UpiAppId, AppRawData> argument, as its entries in iteration order
    mpc,            \* position of the call: "loop", "done"
    idx,            \* number of entries of rawDataByApp.entries() already consumed
    combinedData,   \* the local combinedData (five collections and sources)
    errors,         \* the local errors array
    mergeResult,    \* the value the promise resolves to
    \* ---- BhimAdapter.parse ----
    bhimHtml,       \* rawData.bhimHtml, by what the parser tests of it
    bpc,            \* position of the call: "start", "header", "rows", "elements", "done"
    variant,        \* the format parser the call went through: "none", "table", "xml"
    nodesRead,      \* the tr rows / Transaction elements the loop has got so far
    seenIds,        \* the local seenIds set
    transactions,   \* the local transactions array
    kept,           \* the records that passed the duplicate check, in order
    bhimResult,     \* the ParseResult returned
    pass,           \* 1: a document; 2: the records the first call kept, parsed again
    feed,           \* pass 2: the rest of the document
    firstPass,      \* pass 2: what the first call read and kept
    \* ---- categorizeTransaction ----
    categories,     \* the imported keyword table, as its entries in declaration order
    description,    \* the argument
    category,       \* the value returned, NotCalled before the call
    \* ---- applyFilters, filterByApp, filter...ByYear ----
    filterData,     \* the ParsedData argument: its arrays, each with its identity
    filterContext,  \* the FilterContext argument: year and apps
    filterCall,     \* the function that was called, NotCalled before the call
    filterResult,   \* the value returned
    \* ---- a Google Pay archive through processFile and parseAllAppData ----
    gpArchive,      \* the ZIP file: the role files and other entries it holds
    gpc,            \* position of the upload: "file", "extracted", "done"
    gpProcessed,    \* what processFile returned
    gpParsed,       \* what GooglePayAdapter.parse returned inside the merge
    gpMerged,        \* what parseAllAppData returned
    \* ---- GooglePayAdapter.extract on a JSON entry ----
    zipEntry,       \* a JSON entry of the archive: its role and its text
    extractedText,   \* what extract stores for it: NotExtracted before the call
    \* ---- MultiAppManager.processFile ----
    pfFile,         \* the file given to processFile, as what detectApp answers for it
    pfCalls,         \* the processFile calls made on it so far: password, whether extract ran, outcome
    \* ---- the data store (useDataStore) ----
    storeMap,       \* the store's rawDataByApp: the entries of the Map object it refers to
    uploadedApps,   \* the store's uploadedApps
    parsedData,     \* the store's parsedData, tagged with the action that wrote it
    isLoading,      \* the store's isLoading
    storeError,     \* the store's error
    insights,       \* the store's insights
    parsing,        \* the parseAllData calls that are awaiting
    gpExport,       \* what the Google Pay parsers make of the export the user uploads
    legacyUsed,      \* setRawData or parseRawData was called
    \* ---- BhimAdapter.detect, extract and parse on one file ----
    detFile,        \* the file given to BhimAdapter.detect: its name, what reading it gives
    detResult,      \* the DetectionResult, once detect returned
    detParsed       \* what parse made of the extracted content, once it returned

mergeVars == <<rawDataByApp, mpc, idx, combinedData, errors, mergeResult>>

bhimVars ==
    <<bhimHtml, bpc, variant, nodesRead, seenIds, transactions, kept, bhimResult,
      pass, feed, firstPass>>

catVars == <<categories, description, category>>

filterVars == <<filterData, filterContext, filterCall, filterResult>>

gpVars == <<gpArchive, gpc, gpProcessed, gpParsed, gpMerged>>

jsonVars == <<zipEntry, extractedText>>

pfVars == <<pfFile, pfCalls>>

storeVars == <<storeMap, uploadedApps, parsedData, isLoading, storeError, insights, parsing, gpExport, legacyUsed>>

detVars == <<detFile, detResult, detParsed>>

vars == <<mergeVars, bhimVars, catVars, filterVars, gpVars, jsonVars, pfVars, storeVars, detVars>>

\* the variables each part leaves alone
exceptMerge == <<bhimVars, catVars, filterVars, gpVars, jsonVars, pfVars, storeVars, detVars>>
exceptBhim == <<mergeVars, catVars, filterVars, gpVars, jsonVars, pfVars, storeVars, detVars>>
exceptCat == <<mergeVars, bhimVars, filterVars, gpVars, jsonVars, pfVars, storeVars, detVars>>
exceptFilter == <<mergeVars, bhimVars, catVars, gpVars, jsonVars, pfVars, storeVars, detVars>>
exceptGp == <<mergeVars, bhimVars, catVars, filterVars, jsonVars, pfVars, storeVars, detVars>>
exceptJson == <<mergeVars, bhimVars, catVars, filterVars, gpVars, pfVars, storeVars, detVars>>
exceptPf == <<mergeVars, bhimVars, catVars, filterVars, gpVars, jsonVars, storeVars, detVars>>
exceptStore == <<mergeVars, bhimVars, catVars, filterVars, gpVars, jsonVars, pfVars, detVars>>
exceptDet == <<mergeVars, bhimVars, catVars, filterVars, gpVars, jsonVars, pfVars, storeVars>>

-----------------------------------------------------------------------------
(***************************************************************************)
(* Bounds                                                                  *)
(***************************************************************************)
\* records one adapter returns per collection
MaxRecs == 2

\* tr rows of the BHIM table (the header row included) / Transaction elements
MaxNodes == 3

\* characters of a description given to categorizeTransaction
MaxDescLen == 3

\* records in a collection given to the filters
MaxItems == 3

\* characters of a JSON entry of the archive
MaxTextLen == 6

\* processFile calls on one file
MaxCalls == 3

\* parseAllData calls of the store awaiting at the same time
MaxInFlight == 2

-----------------------------------------------------------------------------
(***************************************************************************)
(* Data model (src/src/types/data.types.ts)                                *)
(***************************************************************************)
\* UpiAppId values; the first two have an adapter in this repository
Apps == {"GOOGLE_PAY", "BHIM", "PHONEPE"}

\* the adapters the detector has registered
RegisteredAdapters == {"GOOGLE_PAY", "BHIM"}

\* AppDetector.getAdapter(appId) is defined (truthy)
HasAdapter(appId) == appId \in RegisteredAdapters

\* the five collections of ParsedData
Collections ==
    {"transactions", "groupExpenses", "cashbackRewards", "voucherRewards", "activities"}

\* Date.getTime() of an Invalid Date: new Date(timeStr) of an undecodable
\* string does not throw, it yields a Date whose getTime() is NaN
NaN == -1

\* getTime() values of the designated date field of a record
Times == {NaN, 1, 2}

\* identifiers are strings an app hands out: <<space, n>>; two apps that use the
\* same space hand out colliding identifiers
IdSpaces == {"x", "y"}

\* a record of collection c: `time` stands for the collection's date field
\* (time, creationTime, date, expiryDate), `id` for its identifier
Rec(c, i, t, app) == [kind |-> c, id |-> i, time |-> t, sourceApp |-> app]

\* a field of Partial<ParsedData>: absent (undefined) or an array
Absent == [present |-> FALSE, items |-> <<>>]
Present(items) == [present |-> TRUE, items |-> items]

TimeSeqs == UNION {[1 .. n -> Times] : n \in 0 .. MaxRecs}

RecsOf(c, ts, sp, app) == [i \in 1 .. Len(ts) |-> Rec(c, <<sp, i>>, ts[i], app)]

\* the data an adapter returns for records with the date values ts:
\*   BhimAdapter.parse      transactions, the other four collections empty arrays
\*   GooglePayAdapter.parse all five collections
DataOf(app, ts, sp) ==
    [c \in Collections |->
        IF c = "transactions" \/ app = "GOOGLE_PAY" THEN Present(RecsOf(c, ts, sp, app))
        ELSE Present(<<>>)]

NoData == [c \in Collections |-> Absent]

\* what adapter.parse(appRawData.rawData) does with a raw payload: it throws, or
\* it returns a ParseResult {success, data?}
PayloadKinds ==
    {[kind |-> "throws", success |-> FALSE, hasData |-> FALSE, ts |-> <<>>, ids |-> "x"]}
    \cup {[kind |-> "result", success |-> s, hasData |-> FALSE, ts |-> <<>>, ids |-> "x"] :
            s \in BOOLEAN}
    \cup {[kind |-> "result", success |-> FALSE, hasData |-> TRUE, ts |-> ts, ids |-> "x"] :
            ts \in TimeSeqs}
    \cup {[kind |-> "result", success |-> TRUE, hasData |-> TRUE, ts |-> ts, ids |-> sp] :
            ts \in TimeSeqs \ {<<>>}, sp \in IdSpaces}
    \cup {[kind |-> "result", success |-> TRUE, hasData |-> TRUE, ts |-> <<>>, ids |-> "x"]}

Unparsed == [kind |-> "throws", success |-> FALSE, hasData |-> FALSE, ts |-> <<>>, ids |-> "x"]

ParseOutcome(app, p) ==
    [kind |-> p.kind, success |-> p.success, hasData |-> p.hasData,
     data |-> IF p.hasData THEN DataOf(app, p.ts, p.ids) ELSE NoData]

\* an entry [appId, appRawData] of the map, the raw data given by what its
\* adapter's parse makes of it
Entry(app, p) == [app |-> app, parses |-> ParseOutcome(app, p)]

\* key orders of a Map: sequences of distinct app ids
KeyOrders ==
    {o \in UNION {[1 .. n -> Apps] : n \in 0 .. Cardinality(Apps)} :
        \A i, j \in DOMAIN o : i # j => o[i] # o[j]}

-----------------------------------------------------------------------------
(***************************************************************************)
(* categorizeTransaction (src/src/utils/categoryUtils.ts)                  *)
(***************************************************************************)
\* strings are sequences of characters; "A" is the upper-case form of "a"
Alphabet == {"a", "A", "b"}

RECURSIVE StringsUpTo(_)
StringsUpTo(n) ==
    IF n = 0 THEN {<<>>}
    ELSE LET shorter == StringsUpTo(n - 1)
         IN shorter \cup {Append(str, c) : str \in shorter, c \in Alphabet}

Descriptions == StringsUpTo(MaxDescLen)

\* String.prototype.toLowerCase
ToLowerCase(str) == [i \in DOMAIN str |-> IF str[i] = "A" THEN "a" ELSE str[i]]

\* String.prototype.includes
Includes(str, search) ==
    \E start \in 0..(Len(str) - Len(search)) :
        SubSeq(str, start + 1, start + Len(search)) = search

\* the keywords a category of the table can list
Keywords == {<<"a">>, <<"b">>, <<"A", "b">>, <<"b", "a">>}

KeywordLists == {<<>>} \cup {<<k>> : k \in Keywords} \cup {<<k, l>> : k, l \in Keywords}

\* categories.json: an object of category name -> keyword array; Object.entries
\* gives its entries in declaration order
KeywordTables ==
    {<<[category |-> "Food", keywords |-> f], [category |-> "Groceries", keywords |-> g]>> :
        f \in KeywordLists, g \in KeywordLists}

\* variant: a later category wins over an earlier one
CategorizeTransaction_LastMatch(table, desc) ==
    LET lowerDesc == ToLowerCase(desc)
        matching == {k \in DOMAIN table :
                        \E i \in DOMAIN table[k].keywords :
                            Includes(lowerDesc, ToLowerCase(table[k].keywords[i]))}
    IN IF matching = {} THEN "Others"
       ELSE table[CHOOSE k \in matching : \A m \in matching : m <= k].category

\* lines 40-44: the inner loop, from keyword number i on
RECURSIVE AnyKeywordIn(_, _, _)
AnyKeywordIn(lowerDesc, keywords, i) ==
    IF i > Len(keywords) THEN FALSE
    ELSE IF Includes(lowerDesc, ToLowerCase(keywords[i])) THEN TRUE
    ELSE AnyKeywordIn(lowerDesc, keywords, i + 1)

\* lines 39-47: the outer loop, from entry number k on
RECURSIVE CategorizeFrom(_, _, _)
CategorizeFrom(table, lowerDesc, k) ==
    IF k > Len(table) THEN "Others"
    ELSE IF AnyKeywordIn(lowerDesc, table[k].keywords, 1) THEN table[k].category
    ELSE CategorizeFrom(table, lowerDesc, k + 1)

\* lines 35-48
CategorizeTransaction(table, desc) == CategorizeFrom(table, ToLowerCase(desc), 1)

NotCalled == "(not called)"

CatIdle ==
    /\ categories = <<>>
    /\ description = <<>>
    /\ category = NotCalled

-----------------------------------------------------------------------------
(***************************************************************************)
(* Year and app filters (src/src/utils/dateUtils.ts, src/unnamed/part_000) *)
(***************************************************************************)
\* a Date: year and month, or the Invalid Date
InvalidDate == <<>>
Dates == {<<2024, 12>>, <<2025, 1>>, InvalidDate}

\* Date.prototype.getFullYear: NaN for the Invalid Date
GetFullYear(date) == IF date = InvalidDate THEN NaN ELSE date[1]

\* filter.types YearFilter (part_003 line 57) and AppFilter[]
YearFilters == {"2024", "2025", "all"}
AppFilters ==
    {<<"all">>, <<"GOOGLE_PAY">>, <<"BHIM">>, <<"GOOGLE_PAY", "BHIM">>,
     <<"BHIM", "all">>, <<>>}

\* parseInt of a YearFilter: NaN when the text has no leading digits
ParseInt(str) ==
    CASE str = "2024" -> 2024
      [] str = "2025" -> 2025
      [] OTHER -> NaN

\* === on numbers: NaN equals nothing, itself included
StrictEquals(a, b) == a # NaN /\ b # NaN /\ a = b

\* Array.prototype.includes on an array of strings
ArrayIncludes(array, x) == \E i \in DOMAIN array : array[i] = x

\* an array in memory: its identity and its elements
ArrayAt(ref, items) == [ref |-> ref, items |-> items]

\* Array.prototype.filter: a new array, allocated at the given site for the
\* array it is called on, holding the elements that passed the test, in order
ArrayFilter(array, passing, site) == ArrayAt(<<site, array.ref>>, passing)

\* variant: the sentinel is not tested
FilterTransactionsByYear_NoSentinel(transactionArray, year) ==
    LET InYear(t) == StrictEquals(GetFullYear(t.time), ParseInt(year))
    IN ArrayFilter(transactionArray, SelectSeq(transactionArray.items, InYear), "dateUtils:16")

\* dateUtils.ts lines 10-20
FilterTransactionsByYear(transactionArray, year) ==
    LET InYear(t) == StrictEquals(GetFullYear(t.time), ParseInt(year))
    IN IF year = "all" THEN transactionArray
       ELSE ArrayFilter(transactionArray, SelectSeq(transactionArray.items, InYear), "dateUtils:16")

\* dateUtils.ts lines 25-35
FilterGroupExpensesByYear(expenses, year) ==
    LET InYear(e) == StrictEquals(GetFullYear(e.creationTime), ParseInt(year))
    IN IF year = "all" THEN expenses
       ELSE ArrayFilter(expenses, SelectSeq(expenses.items, InYear), "dateUtils:31")

\* dateUtils.ts lines 40-50
FilterCashbackRewardsByYear(rewards, year) ==
    LET InYear(r) == StrictEquals(GetFullYear(r.date), ParseInt(year))
    IN IF year = "all" THEN rewards
       ELSE ArrayFilter(rewards, SelectSeq(rewards.items, InYear), "dateUtils:46")

\* dateUtils.ts lines 55-65
FilterVouchersByYear(vouchers, year) ==
    LET InYear(v) == StrictEquals(GetFullYear(v.expiryDate), ParseInt(year))
    IN IF year = "all" THEN vouchers
       ELSE ArrayFilter(vouchers, SelectSeq(vouchers.items, InYear), "dateUtils:61")

\* dateUtils.ts lines 70-80
FilterActivitiesByYear(activityArray, year) ==
    LET InYear(activity) == StrictEquals(GetFullYear(activity.time), ParseInt(year))
    IN IF year = "all" THEN activityArray
       ELSE ArrayFilter(activityArray, SelectSeq(activityArray.items, InYear), "dateUtils:76")

\* the year filter of each collection
FilterByYear(c, array, year) ==
    CASE c = "transactions" -> FilterTransactionsByYear(array, year)
      [] c = "groupExpenses" -> FilterGroupExpensesByYear(array, year)
      [] c = "cashbackRewards" -> FilterCashbackRewardsByYear(array, year)
      [] c = "voucherRewards" -> FilterVouchersByYear(array, year)
      [] c = "activities" -> FilterActivitiesByYear(array, year)

\* variant: the sentinel is not tested
FilterByApp_NoSentinel(items, appFilter) ==
    LET Selected(item) == ArrayIncludes(appFilter, item.sourceApp)
    IN ArrayFilter(items, SelectSeq(items.items, Selected), "filterUtils:24")

\* variant: only the first record of a selected app is returned
FilterByApp_FirstOnly(items, appFilter) ==
    LET Selected(item) == ArrayIncludes(appFilter, item.sourceApp)
        all == SelectSeq(items.items, Selected)
    IN IF ArrayIncludes(appFilter, "all") THEN items
       ELSE ArrayAt(<<"filterUtils:24", items.ref>>,
                    IF all = <<>> THEN <<>> ELSE <<Head(all)>>)

\* part_000 lines 17-25
FilterByApp(items, appFilter) ==
    LET Selected(item) == ArrayIncludes(appFilter, item.sourceApp)
    IN IF ArrayIncludes(appFilter, "all") THEN items
       ELSE ArrayFilter(items, SelectSeq(items.items, Selected), "filterUtils:24")

\* part_000 lines 30-52
ApplyFilters(data, context) ==
    LET yearFiltered ==
            [transactions |-> FilterTransactionsByYear(data.transactions, context.year),
             activities |-> FilterActivitiesByYear(data.activities, context.year),
             groupExpenses |-> FilterGroupExpensesByYear(data.groupExpenses, context.year),
             cashbackRewards |-> FilterCashbackRewardsByYear(data.cashbackRewards, context.year),
             voucherRewards |-> FilterVouchersByYear(data.voucherRewards, context.year),
             sources |-> data.sources]
        appFiltered ==
            [transactions |-> FilterByApp(yearFiltered.transactions, context.apps),
             activities |-> FilterByApp(yearFiltered.activities, context.apps),
             groupExpenses |-> FilterByApp(yearFiltered.groupExpenses, context.apps),
             cashbackRewards |-> FilterByApp(yearFiltered.cashbackRewards, context.apps),
             voucherRewards |-> FilterByApp(yearFiltered.voucherRewards, context.apps),
             sources |-> yearFiltered.sources]
    IN appFiltered

\* the (date, sourceApp) of the records of a collection
DatedItems ==
    UNION {[1..n -> Dates \X {"GOOGLE_PAY", "BHIM"}] : n \in 0..MaxItems}

Reverse(items) == [i \in DOMAIN items |-> items[Len(items) + 1 - i]]

\* data.types.ts: the records of each collection, with their own date field
RecordsOf(c, dated) ==
    CASE c = "transactions" ->
            [i \in DOMAIN dated |-> [time |-> dated[i][1], sourceApp |-> dated[i][2]]]
      [] c = "activities" ->
            [i \in DOMAIN dated |-> [time |-> dated[i][1], sourceApp |-> dated[i][2]]]
      [] c = "groupExpenses" ->
            [i \in DOMAIN dated |-> [creationTime |-> dated[i][1], sourceApp |-> dated[i][2]]]
      [] c = "cashbackRewards" ->
            [i \in DOMAIN dated |-> [date |-> dated[i][1], sourceApp |-> dated[i][2]]]
      [] c = "voucherRewards" ->
            [i \in DOMAIN dated |-> [expiryDate |-> dated[i][1], sourceApp |-> dated[i][2]]]

\* a ParsedData whose arrays are distinct objects
ParsedDataOf(dated) ==
    [transactions |-> ArrayAt(<<"data", "transactions">>, RecordsOf("transactions", dated)),
     activities |-> ArrayAt(<<"data", "activities">>, RecordsOf("activities", Reverse(dated))),
     groupExpenses |-> ArrayAt(<<"data", "groupExpenses">>, RecordsOf("groupExpenses", dated)),
     cashbackRewards |->
        ArrayAt(<<"data", "cashbackRewards">>, RecordsOf("cashbackRewards", Reverse(dated))),
     voucherRewards |-> ArrayAt(<<"data", "voucherRewards">>, RecordsOf("voucherRewards", dated)),
     sources |-> ArrayAt(<<"data", "sources">>, <<"GOOGLE_PAY", "BHIM">>)]

FilterIdle ==
    /\ filterData = ParsedDataOf(<<>>)
    /\ filterContext = [year |-> "all", apps |-> <<"all">>]
    /\ filterCall = NotCalled
    /\ filterResult = <<>>

-----------------------------------------------------------------------------
(***************************************************************************)
(* GooglePayAdapter (src/unnamed/part_001 lines 322-489)                   *)
(***************************************************************************)
\* The raw payload map has one key per logical role; a key is named here by
\* the collection parse fills from it (the key of activities is myActivity).

\* the text of a role file, by what the role's format parser makes of it:
\*   "records"   it returns success with one record
\*   "rejected"  it returns success = false
\*   "throws"    it throws
\*   "empty"     the file is empty (the text is '')
PayloadTexts == {"records", "rejected", "throws", "empty"}

\* a role file of the archive: found under its path or not
NoFile == [found |-> FALSE, text |-> "empty"]
RoleFiles == {NoFile} \cup {[found |-> TRUE, text |-> t] : t \in PayloadTexts}

\* the ZIP: its role files, and whether it holds another entry whose name has
\* 'Google Pay/' or 'Google transactions/transactions_' in it
Archives ==
    [files : [Collections -> RoleFiles], otherSignedEntry : BOOLEAN]

RolesFound(archive) == {c \in Collections : archive.files[c].found}

\* lines 329-355: the transactions CSV has 'Google transactions/transactions_'
\* in its name, the other four role files have 'Google Pay/'
GooglePayDetect(archive) ==
    LET hasGoogleTransactions ==
            archive.files["transactions"].found \/ archive.otherSignedEntry
        hasGooglePayFolder ==
            (\E c \in Collections \ {"transactions"} : archive.files[c].found)
            \/ archive.otherSignedEntry
    IN hasGoogleTransactions \/ hasGooglePayFolder

\* lines 361-408: extractedData gets a key for each role file that is found
GooglePayExtract(archive) ==
    [c \in Collections |->
        IF archive.files[c].found
        THEN [present |-> TRUE, text |-> archive.files[c].text]
        ELSE [present |-> FALSE, text |-> "empty"]]

\* `if (rawData.<key>)`: the key is there and its text is not ''
Truthy(field) == field.present /\ field.text # "empty"

\* line 427: result.success && result.data of the role's format parser
Accepted(field) == field.text = "records"

\* lines 428-432: result.data.map(t => ({...t, sourceApp: this.appId}))
TaggedRecords(c) == <<Rec(c, <<"g", 1>>, 1, "GOOGLE_PAY")>>

\* a ParseResult, in the form parseAllAppData reads it
GpFailure == [kind |-> "result", success |-> FALSE, hasData |-> FALSE, data |-> NoData]
GpSuccess(data) == [kind |-> "result", success |-> TRUE, hasData |-> TRUE, data |-> data]

\* the format parser of the role finds the text structurally invalid and
\* returns a result with success: false
Rejected(field) == field.text = "rejected"

\* variant: a role whose text its format parser rejects fails the parse
GooglePayParse_FailsOnRejected(raw) ==
    IF \E c \in Collections : Truthy(raw[c]) /\ raw[c].text \in {"throws", "rejected"}
    THEN GpFailure
    ELSE GpSuccess([c \in Collections |->
                       IF Truthy(raw[c]) /\ Accepted(raw[c])
                       THEN Present(TaggedRecords(c))
                       ELSE Present(<<>>)])

\* variant: a role that is not in the map fails the parse
GooglePayParse_RequiresAllRoles(raw) ==
    IF \E c \in Collections : ~raw[c].present \/ (Truthy(raw[c]) /\ raw[c].text = "throws")
    THEN GpFailure
    ELSE GpSuccess([c \in Collections |->
                       IF Truthy(raw[c]) /\ Accepted(raw[c])
                       THEN Present(TaggedRecords(c))
                       ELSE Present(<<>>)])

\* lines 414-488
GooglePayParse(raw) ==
    IF \E c \in Collections : Truthy(raw[c]) /\ raw[c].text = "throws"
    THEN GpFailure
    ELSE GpSuccess([c \in Collections |->
                       IF Truthy(raw[c]) /\ Accepted(raw[c])
                       THEN Present(TaggedRecords(c))
                       ELSE Present(<<>>)])

NoRawData == [c \in Collections |-> [present |-> FALSE, text |-> "empty"]]
NotProcessed == [returned |-> FALSE, success |-> FALSE, rawData |-> NoRawData]
NotParsed == [kind |-> "none", success |-> FALSE, hasData |-> FALSE, data |-> NoData]
NotMerged == [returned |-> FALSE, success |-> FALSE, sources |-> <<>>, transactions |-> <<>>,
              groupExpenses |-> <<>>, cashbackRewards |-> <<>>, voucherRewards |-> <<>>,
              activities |-> <<>>]

GpIdle ==
    /\ gpArchive = [files |-> [c \in Collections |-> NoFile], otherSignedEntry |-> FALSE]
    /\ gpc = "idle"
    /\ gpProcessed = NotProcessed
    /\ gpParsed = NotParsed
    /\ gpMerged = NotMerged

-----------------------------------------------------------------------------
(***************************************************************************)
(* GooglePayAdapter.extract: the JSON entries (part_001 lines 381-399)     *)
(***************************************************************************)
\* the characters of the anti-XSSI prefix and the line feed; "]" and "}" also
\* serve as the characters of the JSON text itself
JsonChars == {")", "]", "}", "'", "\n"}

JsonTexts == UNION {[1..n -> JsonChars] : n \in 0..MaxTextLen}

\* the roles whose file is JSON
JsonRoles == {"groupExpenses", "voucherRewards"}

XssiPrefix == <<")", "]", "}", "'">>

StartsWithPrefix(text) ==
    Len(text) >= Len(XssiPrefix) /\ SubSeq(text, 1, Len(XssiPrefix)) = XssiPrefix

IsLineBreak(c) == c \in {"\n", "\r"}

\* [\n\r]* at the head of the text: the text after its leading line breaks
RECURSIVE DropLineBreaks(_)
DropLineBreaks(text) ==
    IF text # <<>> /\ IsLineBreak(Head(text)) THEN DropLineBreaks(Tail(text)) ELSE text

\* line 398: raw.replace(/^\)\]\}'[\n\r]*/, '')
StripXssiPrefix(raw) ==
    IF StartsWithPrefix(raw)
    THEN DropLineBreaks(SubSeq(raw, Len(XssiPrefix) + 1, Len(raw)))
    ELSE raw

\* lines 381-399: what extractedData gets for the entry of a JSON role
ExtractJson(role, text) ==
    IF role = "voucherRewards" THEN StripXssiPrefix(text) ELSE text

\* extractedData before extract ran
NotExtracted == [called |-> FALSE, text |-> <<>>]

JsonIdle ==
    /\ zipEntry = [role |-> "voucherRewards", text |-> <<>>]
    /\ extractedText = NotExtracted

-----------------------------------------------------------------------------
(***************************************************************************)
(* MultiAppManager.processFile (MultiAppManager.ts lines 20-68)            *)
(***************************************************************************)
\* what detectApp answers: null, or a detection with requiresPassword
Detections == {"null", "open", "requiresPassword"}

\* the password argument: left out, '' or a non-empty string
Passwords == {"undefined", "", "secret"}

\* `!password`
NoPassword(password) == password \in {"undefined", ""}

\* how a call ends: it returns a result or it throws
PfReturned(extractCalled, success, error) ==
    [extractCalled |-> extractCalled, ended |-> "returned", success |-> success, error |-> error]

PfThrown == [extractCalled |-> TRUE, ended |-> "thrown", success |-> FALSE, error |-> "thrown"]

\* variant: the password check is left out
ProcessFile_NoPasswordCheck(detection, password, extractThrows) ==
    IF detection = "null"
    THEN PfReturned(FALSE, FALSE, "Could not detect UPI app from file")
    ELSE IF extractThrows
         THEN PfReturned(TRUE, FALSE, "error.message")
         ELSE PfReturned(TRUE, TRUE, "")

\* variant: extract is called outside the try block
ProcessFile_NoCatch(detection, password, extractThrows) ==
    IF detection = "null"
    THEN PfReturned(FALSE, FALSE, "Could not detect UPI app from file")
    ELSE IF detection = "requiresPassword" /\ NoPassword(password)
         THEN PfReturned(FALSE, FALSE, "This file requires a password.")
         ELSE IF extractThrows THEN PfThrown ELSE PfReturned(TRUE, TRUE, "")

\* lines 20-68; extractThrows is what adapter.extract does when it is called
ProcessFile(detection, password, extractThrows) ==
    IF detection = "null"
    THEN PfReturned(FALSE, FALSE, "Could not detect UPI app from file")
    ELSE IF detection = "requiresPassword" /\ NoPassword(password)
         THEN PfReturned(FALSE, FALSE, "This file requires a password.")
         ELSE IF extractThrows
              THEN PfReturned(TRUE, FALSE, "error.message")
              ELSE PfReturned(TRUE, TRUE, "")

PfIdle ==
    /\ pfFile = "null"
    /\ pfCalls = <<>>

-----------------------------------------------------------------------------
(***************************************************************************)
(* The data store (part_001 lines 28-305): its state                       *)
(***************************************************************************)
\* line 31: parsedData: null
NullParsedData ==
    [present |-> FALSE, by |-> "none",
     data |-> [transactions |-> <<>>, groupExpenses |-> <<>>, cashbackRewards |-> <<>>,
               voucherRewards |-> <<>>, activities |-> <<>>, sources |-> <<>>]]

\* lines 29-39
StoreIdle ==
    /\ storeMap = <<>>
    /\ uploadedApps = <<>>
    /\ parsedData = NullParsedData
    /\ isLoading = FALSE
    /\ storeError = "null"
    /\ insights = <<>>
    /\ parsing = {}
    /\ gpExport = [kind |-> "result", success |-> FALSE, hasData |-> FALSE,
                   ts |-> <<>>, ids |-> "x"]
    /\ legacyUsed = FALSE

-----------------------------------------------------------------------------
(***************************************************************************)
(* BhimAdapter.detect (BhimAdapter.ts lines 20-74)                         *)
(***************************************************************************)
\* the text of an HTML file by what detect and parse test of it:
\*   hasVarData, hasUpiTag, hasBanner   includes('var DATA'),
\*       includes('<UPITransactions'), includes('BHIM - Bharat Interface For Money')
\*   hasTableMarkers   includes 'Bank Name', 'Payment ID', 'Pay/Collect' and 'DR/CR'
\*   hasTable          doc.querySelector('table') finds an element
\* the empty text has none of them
HtmlTexts ==
    {h \in [present : BOOLEAN, hasVarData : BOOLEAN, hasUpiTag : BOOLEAN,
            hasBanner : BOOLEAN, hasTableMarkers : BOOLEAN, hasTable : BOOLEAN] :
        ~h.present => ~(h.hasVarData \/ h.hasUpiTag \/ h.hasBanner
                        \/ h.hasTableMarkers \/ h.hasTable)}

EmptyText ==
    [present |-> FALSE, hasVarData |-> FALSE, hasUpiTag |-> FALSE, hasBanner |-> FALSE,
     hasTableMarkers |-> FALSE, hasTable |-> FALSE]

\* a file: how its name ends, whether reading it throws, whether a ZIP holds
\* an .html entry, and the HTML text it gives
DetFiles ==
    [name : {".zip", ".html", ".htm", "other"}, readThrows : BOOLEAN,
     htmlInZip : BOOLEAN, html : HtmlTexts]

Undetected == [returned |-> FALSE, threw |-> FALSE, canHandle |-> FALSE, confidence |-> "0"]

DetectionResult(canHandle, confidence) ==
    [returned |-> TRUE, threw |-> FALSE, canHandle |-> canHandle, confidence |-> confidence]

\* lines 53-70: the markers of the text
DetectMarkers(html) ==
    IF html.hasVarData /\ html.hasUpiTag /\ html.hasBanner
    THEN DetectionResult(TRUE, "0.95")
    ELSE IF html.hasTableMarkers
    THEN DetectionResult(TRUE, "0.9")
    ELSE DetectionResult(FALSE, "0")

\* lines 20-74
BhimDetect(file) ==
    IF file.name = ".zip"
    THEN IF file.readThrows THEN DetectionResult(FALSE, "0")
         ELSE IF ~file.htmlInZip THEN DetectionResult(FALSE, "0")
         ELSE DetectMarkers(file.html)
    ELSE IF file.name \in {".html", ".htm"}
    THEN IF file.readThrows THEN DetectionResult(FALSE, "0")
         ELSE DetectMarkers(file.html)
    ELSE DetectionResult(FALSE, "0")

\* the variant a confidence stands for
MatchedVariant(confidence) ==
    IF confidence = "0.95" THEN "xml" ELSE IF confidence = "0.9" THEN "table" ELSE "none"

NotParsedYet == [returned |-> FALSE, success |-> FALSE, variant |-> "none"]

DetIdle ==
    /\ detFile = [name |-> "other", readThrows |-> FALSE, htmlInZip |-> FALSE,
                  html |-> EmptyText]
    /\ detResult = Undetected
    /\ detParsed = NotParsedYet

-----------------------------------------------------------------------------
(***************************************************************************)
(* BhimAdapter.parse (src/src/adapters/bhim/BhimAdapter.ts)                *)
(***************************************************************************)
\* payment / transaction identifiers (cells[6], the Id attribute)
PaymentIds == {"P1", "P2"}

\* what the date and amount texts of a record decode to: both decode, the date
\* gives an Invalid Date, the amount gives NaN
Decodings == {"ok", "badDate", "badAmount"}

\* a tr row of the table: the number of td cells and the cells the parser reads.
\* A row with fewer than 11 cells has no Status cell; a row with 12 has one
\* cell after it. The date and amount texts vary on the rows whose decoded
\* values are used.
TableRows ==
    {[cells |-> 11, id |-> p, drCr |-> d, status |-> st, decodes |-> "ok"] :
        p \in PaymentIds, d \in {"DR", "CR"}, st \in {"SUCCESS", "FAILED"}}
    \cup {[cells |-> 11, id |-> p, drCr |-> "DR", status |-> "SUCCESS", decodes |-> dc] :
            p \in PaymentIds, dc \in Decodings}
    \cup {[cells |-> 10, id |-> p, drCr |-> "DR", status |-> "", decodes |-> "ok"] :
            p \in PaymentIds}
    \cup {[cells |-> 12, id |-> p, drCr |-> "DR", status |-> "SUCCESS", decodes |-> "ok"] :
            p \in PaymentIds}

\* a Transaction element of the embedded XML: the attributes the parser reads
XmlElements ==
    {[cells |-> 0, id |-> p, drCr |-> b, status |-> "", decodes |-> "ok"] :
        p \in PaymentIds, b \in {"DR", "CR"}}
    \cup {[cells |-> 0, id |-> p, drCr |-> "DR", status |-> "", decodes |-> dc] :
            p \in PaymentIds, dc \in Decodings}

\* rawData.bhimHtml by what parse and parseBhimXml test of it:
\*   present        the string is non-empty
\*   hasTable       doc.querySelector('table') finds an element
\*   hasVarData     html.includes('var DATA')
\*   hasUpiTag      html.includes('<UPITransactions')
\*   xml            what the embedded XML turns out to be once it is looked at:
\*                  "ok", "nomatch" (the DATA regex does not match), "malformed"
NoHtml ==
    [present |-> FALSE, hasTable |-> FALSE, hasVarData |-> FALSE, hasUpiTag |-> FALSE,
     xml |-> "ok"]

HtmlPayloads ==
    {NoHtml}
    \cup {[present |-> TRUE, hasTable |-> t, hasVarData |-> v, hasUpiTag |-> u, xml |-> "ok"] :
            t \in BOOLEAN, v \in BOOLEAN, u \in BOOLEAN}
    \cup {[present |-> TRUE, hasTable |-> FALSE, hasVarData |-> TRUE, hasUpiTag |-> TRUE,
           xml |-> x] : x \in {"nomatch", "malformed"}}

\* variant: the embedded XML is looked for before the table
ChooseVariant_XmlFirst(html) ==
    IF ~html.present THEN "nohtml"
    ELSE IF html.hasVarData /\ html.hasUpiTag THEN "xml"
    ELSE IF html.hasTable THEN "table"
    ELSE "unrecognized"

\* lines 112-156: the branch parse takes
ChooseVariant(html) ==
    IF ~html.present THEN "nohtml"
    ELSE IF html.hasTable THEN "table"
    ELSE IF html.hasVarData /\ html.hasUpiTag THEN "xml"
    ELSE "unrecognized"

\* variant: the set outlives the call
SeenIds_Kept(previous) == previous

\* lines 211, 306: const seenIds = new Set<string>()
NewSeenIds(previous) == {}

\* lines 227, 330: seenIds.has(id)
IsDuplicate(seen, id) == id \in seen

\* variant: the id is not recorded
MarkSeen_Forgets(seen, id) == seen

\* lines 230, 333: seenIds.add(id)
MarkSeen(seen, id) == seen \cup {id}

\* variant: the status cell is not looked at
TableRowIsExpense_AnyStatus(row) == row.drCr = "DR"

\* lines 354-360: the row is a successful debit
TableRowIsExpense(row) == row.drCr = "DR" /\ row.status = "SUCCESS"

\* lines 251-253: the element is a debit
XmlElementIsExpense(element) == element.drCr = "DR"

\* lines 336-338, 233: new Date(...) of the date text; an undecodable text gives
\* an Invalid Date (getTime() is NaN) and nothing is thrown
DecodeDate(node) == IF node.decodes = "badDate" THEN NaN ELSE 1

\* lines 341-342, 236-237: parseFloat of the amount text; an undecodable text
\* gives NaN and nothing is thrown
DecodeAmount(node) == IF node.decodes = "badAmount" THEN NaN ELSE 1

\* lines 259-269, 364-374: the Transaction built from node number n of the call;
\* the XML format has no status and is given 'Completed'
BhimTransaction(node, n, format) ==
    [id |-> node.id,
     time |-> DecodeDate(node),
     amount |-> DecodeAmount(node),
     status |-> IF format = "xml" THEN "Completed" ELSE node.status,
     sourceApp |-> "BHIM",
     node |-> n]

\* the locals of a format parser
ParserLocals(seen, txs, keptRecords) ==
    [seenIds |-> seen, transactions |-> txs, kept |-> keptRecords]

\* lines 309-381: the loop body of parseBhimHtmlTable on row number n
TableRowStep(loc, row, n) ==
    IF row.cells < 11 THEN loc
    ELSE IF IsDuplicate(loc.seenIds, row.id) THEN loc
    ELSE ParserLocals(
            MarkSeen(loc.seenIds, row.id),
            IF TableRowIsExpense(row)
            THEN Append(loc.transactions, BhimTransaction(row, n, "table"))
            ELSE loc.transactions,
            Append(loc.kept, row))

\* lines 213-276: the loop body of parseBhimXml on element number n
XmlElementStep(loc, element, n) ==
    IF IsDuplicate(loc.seenIds, element.id) THEN loc
    ELSE ParserLocals(
            MarkSeen(loc.seenIds, element.id),
            IF XmlElementIsExpense(element)
            THEN Append(loc.transactions, BhimTransaction(element, n, "xml"))
            ELSE loc.transactions,
            Append(loc.kept, element))

NoBhimResult == [returned |-> FALSE, success |-> FALSE, transactions |-> <<>>]
BhimFailure == [returned |-> TRUE, success |-> FALSE, transactions |-> <<>>]
BhimSuccess(txs) == [returned |-> TRUE, success |-> TRUE, transactions |-> txs]

NoFirstPass == [nodes |-> <<>>, kept |-> <<>>, transactions |-> <<>>]

\* the adapter is not in use
BhimIdle ==
    /\ bhimHtml = NoHtml
    /\ bpc = "idle"
    /\ variant = "none"
    /\ nodesRead = <<>>
    /\ seenIds = {}
    /\ transactions = <<>>
    /\ kept = <<>>
    /\ bhimResult = NoBhimResult
    /\ pass = 1
    /\ feed = <<>>
    /\ firstPass = NoFirstPass

\* the nodes the DOM can hand to the loop next: any node while the document may
\* go on (pass 1), the next kept record (pass 2)
NextNodes(all) ==
    IF pass = 1
    THEN (IF Len(nodesRead) < MaxNodes THEN all ELSE {})
    ELSE (IF feed # <<>> THEN {Head(feed)} ELSE {})

\* the node list is exhausted
NoMoreNodes == pass = 1 \/ feed = <<>>

\* parse is called with a payload
BhimParseCalled ==
    /\ bhimHtml \in HtmlPayloads
    /\ bpc = "start"
    /\ variant = "none"
    /\ nodesRead = <<>>
    /\ seenIds = {}
    /\ transactions = <<>>
    /\ kept = <<>>
    /\ bhimResult = NoBhimResult
    /\ pass = 1
    /\ feed = <<>>
    /\ firstPass = NoFirstPass

\* lines 113-115 and 153-156: no html, or no format recognised
BhimParseRejects ==
    /\ bpc = "start"
    /\ ChooseVariant(bhimHtml) \in {"nohtml", "unrecognized"}
    /\ bhimResult' = BhimFailure
    /\ bpc' = "done"
    /\ UNCHANGED <<bhimHtml, variant, nodesRead, seenIds, transactions, kept, pass,
                   feed, firstPass>>
    /\ UNCHANGED exceptBhim

\* lines 123-125, 290-306: the table is found, parseBhimHtmlTable sets up its locals
BhimBeginTable ==
    /\ bpc = "start"
    /\ ChooseVariant(bhimHtml) = "table"
    /\ variant' = "table"
    /\ seenIds' = NewSeenIds(seenIds)
    /\ transactions' = <<>>
    /\ kept' = <<>>
    /\ bpc' = "header"
    /\ UNCHANGED <<bhimHtml, nodesRead, bhimResult, pass, feed, firstPass>>
    /\ UNCHANGED exceptBhim

\* line 309: the loop starts at i = 1, rows[0] is never looked at
BhimSkipHeader ==
    /\ bpc = "header"
    /\ \E row \in NextNodes(TableRows) :
          nodesRead' = Append(nodesRead, row)
    /\ feed' = IF pass = 2 THEN Tail(feed) ELSE feed
    /\ bpc' = "rows"
    /\ UNCHANGED <<bhimHtml, variant, seenIds, transactions, kept, bhimResult, pass,
                   firstPass>>
    /\ UNCHANGED exceptBhim

\* lines 309-381: one row of the table
BhimTableRow ==
    /\ bpc = "rows"
    /\ \E row \in NextNodes(TableRows) :
          LET loc == TableRowStep(ParserLocals(seenIds, transactions, kept), row,
                                  Len(nodesRead) + 1)
          IN /\ nodesRead' = Append(nodesRead, row)
             /\ seenIds' = loc.seenIds
             /\ transactions' = loc.transactions
             /\ kept' = loc.kept
    /\ feed' = IF pass = 2 THEN Tail(feed) ELSE feed
    /\ UNCHANGED <<bhimHtml, bpc, variant, bhimResult, pass, firstPass>>
    /\ UNCHANGED exceptBhim

\* lines 383, 126-135: no row is left
BhimTableReturns ==
    /\ bpc \in {"header", "rows"}
    /\ NoMoreNodes
    /\ bhimResult' = BhimSuccess(transactions)
    /\ bpc' = "done"
    /\ UNCHANGED <<bhimHtml, variant, nodesRead, seenIds, transactions, kept, pass,
                   feed, firstPass>>
    /\ UNCHANGED exceptBhim

\* lines 139-140, 183-211: the XML markers are found, parseBhimXml extracts the
\* document and sets up its locals
BhimBeginXml ==
    /\ bpc = "start"
    /\ ChooseVariant(bhimHtml) = "xml"
    /\ bhimHtml.xml = "ok"
    /\ variant' = "xml"
    /\ seenIds' = NewSeenIds(seenIds)
    /\ transactions' = <<>>
    /\ kept' = <<>>
    /\ bpc' = "elements"
    /\ UNCHANGED <<bhimHtml, nodesRead, bhimResult, pass, feed, firstPass>>
    /\ UNCHANGED exceptBhim

\* lines 187-204, 141-150: the DATA variable is not found or the XML has a
\* parsererror; parseBhimXml returns [] and parse returns success
BhimXmlUnreadable ==
    /\ bpc = "start"
    /\ ChooseVariant(bhimHtml) = "xml"
    /\ bhimHtml.xml # "ok"
    /\ variant' = "xml"
    /\ bhimResult' = BhimSuccess(<<>>)
    /\ bpc' = "done"
    /\ UNCHANGED <<bhimHtml, nodesRead, seenIds, transactions, kept, pass, feed,
                   firstPass>>
    /\ UNCHANGED exceptBhim

\* lines 213-276: one Transaction element
BhimXmlElement ==
    /\ bpc = "elements"
    /\ \E element \in NextNodes(XmlElements) :
          LET loc == XmlElementStep(ParserLocals(seenIds, transactions, kept), element,
                                    Len(nodesRead) + 1)
          IN /\ nodesRead' = Append(nodesRead, element)
             /\ seenIds' = loc.seenIds
             /\ transactions' = loc.transactions
             /\ kept' = loc.kept
    /\ feed' = IF pass = 2 THEN Tail(feed) ELSE feed
    /\ UNCHANGED <<bhimHtml, bpc, variant, bhimResult, pass, firstPass>>
    /\ UNCHANGED exceptBhim

\* lines 278, 141-150: no element is left
BhimXmlReturns ==
    /\ bpc = "elements"
    /\ NoMoreNodes
    /\ bhimResult' = BhimSuccess(transactions)
    /\ bpc' = "done"
    /\ UNCHANGED <<bhimHtml, variant, nodesRead, seenIds, transactions, kept, pass,
                   feed, firstPass>>
    /\ UNCHANGED exceptBhim

\* parse is called again, on the same adapter, with a document of the same
\* format that holds the records the first call kept (after the header row the
\* first call skipped)
BhimParseAgain ==
    /\ bpc = "done"
    /\ pass = 1
    /\ bhimResult.success
    /\ nodesRead # <<>>
    /\ firstPass' = [nodes |-> nodesRead, kept |-> kept,
                     transactions |-> bhimResult.transactions]
    /\ feed' = IF variant = "table" THEN <<nodesRead[1]>> \o kept ELSE kept
    /\ pass' = 2
    /\ bpc' = "start"
    /\ variant' = "none"
    /\ nodesRead' = <<>>
    /\ transactions' = <<>>
    /\ kept' = <<>>
    /\ bhimResult' = NoBhimResult
    /\ UNCHANGED <<bhimHtml, seenIds>>
    /\ UNCHANGED exceptBhim

MergeIdle ==
    /\ rawDataByApp = <<>>
    /\ mpc = "idle"
    /\ idx = 0
    /\ combinedData = [transactions |-> <<>>, groupExpenses |-> <<>>,
                       cashbackRewards |-> <<>>, voucherRewards |-> <<>>,
                       activities |-> <<>>, sources |-> <<>>]
    /\ errors = <<>>
    /\ mergeResult = [success |-> FALSE, data |-> combinedData]

\* every part but the named one is at rest
OthersIdle(part) ==
    /\ part = "merge" \/ MergeIdle
    /\ part = "bhim" \/ BhimIdle
    /\ part = "cat" \/ CatIdle
    /\ part = "filter" \/ FilterIdle
    /\ part = "gp" \/ GpIdle
    /\ part = "json" \/ JsonIdle
    /\ part = "pf" \/ PfIdle
    /\ part = "store" \/ StoreIdle
    /\ part = "det" \/ DetIdle

InitBhim == BhimParseCalled /\ OthersIdle("bhim")

NextBhim ==
    \/ BhimParseRejects
    \/ BhimBeginTable
    \/ BhimSkipHeader
    \/ BhimTableRow
    \/ BhimTableReturns
    \/ BhimBeginXml
    \/ BhimXmlUnreadable
    \/ BhimXmlElement
    \/ BhimXmlReturns
    \/ BhimParseAgain

SpecBhim == InitBhim /\ [][NextBhim]_vars

-----------------------------------------------------------------------------
(***************************************************************************)
(* MultiAppManager.parseAllAppData                                         *)
(***************************************************************************)
EmptyCombined ==
    [transactions |-> <<>>, groupExpenses |-> <<>>, cashbackRewards |-> <<>>,
     voucherRewards |-> <<>>, activities |-> <<>>, sources |-> <<>>]

InSeq(x, s) == \E i \in DOMAIN s : s[i] = x

\* the comparator (a, b) => b.time.getTime() - a.time.getTime(); Array.prototype.sort
\* reads a NaN returned by the comparator as +0
Compare(a, b) == IF a.time = NaN \/ b.time = NaN THEN 0 ELSE b.time - a.time

\* one insertion of a stable insertion sort: x moves left past the elements it
\* compares strictly before
RECURSIVE InsertSorted(_, _)
InsertSorted(s, x) ==
    IF s = <<>> THEN <<x>>
    ELSE IF Compare(x, s[Len(s)]) < 0
         THEN Append(InsertSorted(SubSeq(s, 1, Len(s) - 1), x), s[Len(s)])
         ELSE Append(s, x)

\* array.sort(comparator): stable; for a consistent comparator every stable sort
\* gives this result
RECURSIVE SortNewestFirst(_)
SortNewestFirst(s) ==
    IF s = <<>> THEN <<>>
    ELSE InsertSorted(SortNewestFirst(SubSeq(s, 1, Len(s) - 1)), s[Len(s)])

\* variant: the collection is assigned instead of appended to
PushAll_Overwrites(target, field) == IF field.present THEN field.items ELSE target

\* variant: a record whose id is already in the unified collection is dropped
PushAll_SkipsKnownIds(target, field) ==
    IF field.present
    THEN target \o SelectSeq(field.items,
                             LAMBDA r : \A k \in DOMAIN target : target[k].id # r.id)
    ELSE target

\* lines 107-121: if (parsed.c) combinedData.c.push(...parsed.c)
PushAll(target, field) == IF field.present THEN target \o field.items ELSE target

\* lines 124-126
TrackSource(sources, appId) ==
    IF InSeq(appId, sources) THEN sources ELSE Append(sources, appId)

\* variant: the success flag is not looked at
ParseFailed_IgnoresSuccess(parseResult) == ~parseResult.hasData

\* lines 99-102: the result is rejected
ParseFailed(parseResult) == ~parseResult.success \/ ~parseResult.hasData

\* lines 104-126
MergeParsed(cd, appId, parsed) ==
    [transactions    |-> PushAll(cd.transactions, parsed.transactions),
     groupExpenses   |-> PushAll(cd.groupExpenses, parsed.groupExpenses),
     cashbackRewards |-> PushAll(cd.cashbackRewards, parsed.cashbackRewards),
     voucherRewards  |-> PushAll(cd.voucherRewards, parsed.voucherRewards),
     activities      |-> PushAll(cd.activities, parsed.activities),
     sources         |-> TrackSource(cd.sources, appId)]

\* variant: the source is tracked before the parse result is looked at
ProcessEntry_TracksEarly(cd, errs, entry) ==
    IF ~HasAdapter(entry.app)
    THEN [data |-> cd, errors |-> Append(errs, <<"No adapter found", entry.app>>)]
    ELSE IF entry.parses.kind = "throws"
    THEN [data |-> cd, errors |-> Append(errs, <<"Error parsing", entry.app>>)]
    ELSE IF ParseFailed(entry.parses)
    THEN [data |-> [cd EXCEPT !.sources = TrackSource(cd.sources, entry.app)],
          errors |-> Append(errs, <<"Failed to parse", entry.app>>)]
    ELSE [data |-> MergeParsed(cd, entry.app, entry.parses.data), errors |-> errs]

\* one iteration of the for loop (lines 89-132) on the locals combinedData, errors
ProcessEntry(cd, errs, entry) ==
    IF ~HasAdapter(entry.app)
    THEN [data |-> cd, errors |-> Append(errs, <<"No adapter found", entry.app>>)]
    ELSE IF entry.parses.kind = "throws"
    THEN [data |-> cd, errors |-> Append(errs, <<"Error parsing", entry.app>>)]
    ELSE IF ParseFailed(entry.parses)
    THEN [data |-> cd, errors |-> Append(errs, <<"Failed to parse", entry.app>>)]
    ELSE [data |-> MergeParsed(cd, entry.app, entry.parses.data), errors |-> errs]

\* lines 134-139
SortCombined(cd) ==
    [cd EXCEPT !.transactions = SortNewestFirst(cd.transactions),
               !.activities = SortNewestFirst(cd.activities),
               !.groupExpenses = SortNewestFirst(cd.groupExpenses)]

\* line 145
ReturnValue(cd, errs) == [success |-> TRUE, data |-> cd]

NoResult == [success |-> FALSE, data |-> EmptyCombined]

InitMerge ==
    /\ OthersIdle("merge")
    /\ \E o \in KeyOrders :
         \E f \in [DOMAIN o -> PayloadKinds] :
            \* parse is never called for an app without adapter
            /\ \A i \in DOMAIN o : ~HasAdapter(o[i]) => f[i] = Unparsed
            /\ rawDataByApp = [i \in DOMAIN o |-> Entry(o[i], f[i])]
    /\ mpc = "loop"
    /\ idx = 0
    /\ combinedData = EmptyCombined
    /\ errors = <<>>
    /\ mergeResult = NoResult

\* one pass of the loop body over the next entry of rawDataByApp.entries()
ParseNextApp ==
    /\ mpc = "loop"
    /\ idx < Len(rawDataByApp)
    /\ LET r == ProcessEntry(combinedData, errors, rawDataByApp[idx + 1])
       IN /\ combinedData' = r.data
          /\ errors' = r.errors
    /\ idx' = idx + 1
    /\ UNCHANGED <<rawDataByApp, mpc, mergeResult>>
    /\ UNCHANGED exceptMerge

\* after the loop: the three sorts and the return
SortAndReturn ==
    /\ mpc = "loop"
    /\ idx = Len(rawDataByApp)
    /\ combinedData' = SortCombined(combinedData)
    /\ mergeResult' = ReturnValue(combinedData', errors)
    /\ mpc' = "done"
    /\ UNCHANGED <<rawDataByApp, idx, errors>>
    /\ UNCHANGED exceptMerge

NextMerge == ParseNextApp \/ SortAndReturn

SpecMerge == InitMerge /\ [][NextMerge]_vars

-----------------------------------------------------------------------------
(***************************************************************************)
(* categorizeTransaction: the call                                         *)
(***************************************************************************)
InitCat ==
    /\ categories \in KeywordTables
    /\ description \in Descriptions
    /\ category = NotCalled
    /\ OthersIdle("cat")

Categorize ==
    /\ category = NotCalled
    /\ category' = CategorizeTransaction(categories, description)
    /\ UNCHANGED <<categories, description>>
    /\ UNCHANGED exceptCat

NextCat == Categorize

SpecCat == InitCat /\ [][NextCat]_vars

-----------------------------------------------------------------------------
(***************************************************************************)
(* The filters: the calls                                                  *)
(***************************************************************************)
InitFilter ==
    /\ \E dated \in DatedItems : filterData = ParsedDataOf(dated)
    /\ filterContext \in [year : YearFilters, apps : AppFilters]
    /\ filterCall = NotCalled
    /\ filterResult = <<>>
    /\ OthersIdle("filter")

\* one of the five year filters is called on its collection of the data
CallFilterByYear ==
    /\ filterCall = NotCalled
    /\ \E c \in Collections :
          /\ filterCall' = c
          /\ filterResult' = FilterByYear(c, filterData[c], filterContext.year)
    /\ UNCHANGED <<filterData, filterContext>>
    /\ UNCHANGED exceptFilter

\* filterByApp is called on the transactions of the data
CallFilterByApp ==
    /\ filterCall = NotCalled
    /\ filterCall' = "filterByApp"
    /\ filterResult' = FilterByApp(filterData.transactions, filterContext.apps)
    /\ UNCHANGED <<filterData, filterContext>>
    /\ UNCHANGED exceptFilter

CallApplyFilters ==
    /\ filterCall = NotCalled
    /\ filterCall' = "applyFilters"
    /\ filterResult' = ApplyFilters(filterData, filterContext)
    /\ UNCHANGED <<filterData, filterContext>>
    /\ UNCHANGED exceptFilter

NextFilter == CallFilterByYear \/ CallFilterByApp \/ CallApplyFilters

SpecFilter == InitFilter /\ [][NextFilter]_vars

-----------------------------------------------------------------------------
(***************************************************************************)
(* The whole call as a function of the map, for comparing runs             *)
(***************************************************************************)
RECURSIVE MergeLoop(_, _, _)
MergeLoop(cd, errs, entries) ==
    IF entries = <<>> THEN [data |-> cd, errors |-> errs]
    ELSE LET r == ProcessEntry(cd, errs, Head(entries))
         IN MergeLoop(r.data, r.errors, Tail(entries))

\* the unsorted concatenation the loop leaves in combinedData
Concatenated(entries) == MergeLoop(EmptyCombined, <<>>, entries).data

ParseAllAppData(entries) ==
    LET r == MergeLoop(EmptyCombined, <<>>, entries)
    IN ReturnValue(SortCombined(r.data), r.errors)

MergeDone == mpc = "done"

\* the three ways an app fails that the merge is said to survive
AppFails(entry) ==
    \/ ~HasAdapter(entry.app)
    \/ entry.parses.kind = "throws"
    \/ entry.parses.kind = "result" /\ ~entry.parses.success

\* the adapter exists and its parse returned success with data
Contributes(entry) ==
    /\ HasAdapter(entry.app)
    /\ entry.parses.kind = "result"
    /\ entry.parses.success
    /\ entry.parses.hasData

ItemsOf(entry, c) == entry.parses.data[c].items

Range(s) == {s[i] : i \in DOMAIN s}

WithoutEntry(entries, i) ==
    [k \in 1 .. Len(entries) - 1 |-> IF k < i THEN entries[k] ELSE entries[k + 1]]

SeqPerms(s) ==
    {[i \in DOMAIN s |-> s[f[i]]] :
        f \in {g \in [DOMAIN s -> DOMAIN s] : \A i, j \in DOMAIN s : i # j => g[i] # g[j]}}

RECURSIVE SumLen(_, _)
SumLen(entries, c) ==
    IF entries = <<>> THEN 0
    ELSE (IF Contributes(Head(entries)) THEN Len(ItemsOf(Head(entries), c)) ELSE 0)
         + SumLen(Tail(entries), c)

NoDuplicates(s) == \A i, j \in DOMAIN s : i # j => s[i] # s[j]

ValidTime(r) == r.time # NaN

-----------------------------------------------------------------------------
(***************************************************************************)
(* A Google Pay archive through processFile and parseAllAppData            *)
(***************************************************************************)
InitGp ==
    /\ gpArchive \in Archives
    /\ gpc = "file"
    /\ gpProcessed = NotProcessed
    /\ gpParsed = NotParsed
    /\ gpMerged = NotMerged
    /\ OthersIdle("gp")

\* MultiAppManager.processFile lines 30-37: no adapter detects the file
GpNotDetected ==
    /\ gpc = "file"
    /\ ~GooglePayDetect(gpArchive)
    /\ gpProcessed' = [returned |-> TRUE, success |-> FALSE, rawData |-> NoRawData]
    /\ gpc' = "done"
    /\ UNCHANGED <<gpArchive, gpParsed, gpMerged>>
    /\ UNCHANGED exceptGp

\* MultiAppManager.processFile lines 47-61: the Google Pay adapter extracts
GpProcessFile ==
    /\ gpc = "file"
    /\ GooglePayDetect(gpArchive)
    /\ gpProcessed' = [returned |-> TRUE, success |-> TRUE,
                       rawData |-> GooglePayExtract(gpArchive)]
    /\ gpc' = "extracted"
    /\ UNCHANGED <<gpArchive, gpParsed, gpMerged>>
    /\ UNCHANGED exceptGp

\* MultiAppManager.parseAllAppData on the map { GOOGLE_PAY -> the raw data }
GpParseAll ==
    /\ gpc = "extracted"
    /\ LET parsed == GooglePayParse(gpProcessed.rawData)
           result == ParseAllAppData(<<[app |-> "GOOGLE_PAY", parses |-> parsed]>>)
       IN /\ gpParsed' = parsed
          /\ gpMerged' = [returned |-> TRUE, success |-> result.success,
                          sources |-> result.data.sources,
                          transactions |-> result.data.transactions,
                          groupExpenses |-> result.data.groupExpenses,
                          cashbackRewards |-> result.data.cashbackRewards,
                          voucherRewards |-> result.data.voucherRewards,
                          activities |-> result.data.activities]
    /\ gpc' = "done"
    /\ UNCHANGED <<gpArchive, gpProcessed>>
    /\ UNCHANGED exceptGp

NextGp == GpNotDetected \/ GpProcessFile \/ GpParseAll

SpecGp == InitGp /\ [][NextGp]_vars

-----------------------------------------------------------------------------
(***************************************************************************)
(* GooglePayAdapter.extract on a JSON entry: the call                      *)
(***************************************************************************)
InitJson ==
    /\ zipEntry \in [role : JsonRoles, text : JsonTexts]
    /\ extractedText = NotExtracted
    /\ OthersIdle("json")

ExtractJsonEntry ==
    /\ ~extractedText.called
    /\ extractedText' = [called |-> TRUE, text |-> ExtractJson(zipEntry.role, zipEntry.text)]
    /\ UNCHANGED zipEntry
    /\ UNCHANGED exceptJson

NextJson == ExtractJsonEntry

SpecJson == InitJson /\ [][NextJson]_vars

-----------------------------------------------------------------------------
(***************************************************************************)
(* MultiAppManager.processFile: the calls                                  *)
(***************************************************************************)
InitPf ==
    /\ pfFile \in Detections
    /\ pfCalls = <<>>
    /\ OthersIdle("pf")

\* one call of processFile(file, password)
CallProcessFile ==
    /\ Len(pfCalls) < MaxCalls
    /\ \E password \in Passwords, extractThrows \in BOOLEAN :
          LET r == ProcessFile(pfFile, password, extractThrows)
          IN pfCalls' = Append(pfCalls,
                 [password |-> password,
                  extractThrew |-> r.extractCalled /\ extractThrows,
                  result |-> r])
    /\ UNCHANGED pfFile
    /\ UNCHANGED exceptPf

NextPf == CallProcessFile

SpecPf == InitPf /\ [][NextPf]_vars

-----------------------------------------------------------------------------
(***************************************************************************)
(* The data store (part_001 lines 28-305): its actions                     *)
(***************************************************************************)
\* the apps the user uploads exports of
StoreApps == {"GOOGLE_PAY", "BHIM"}

\* what GooglePayAdapter.parse returns for the export: a failure (a format
\* parser threw, lines 482-487) or the records of the five roles in the order
\* the format parsers give them
GpExports ==
    {[kind |-> "result", success |-> FALSE, hasData |-> FALSE, ts |-> <<>>, ids |-> "x"]}
    \cup {[kind |-> "result", success |-> TRUE, hasData |-> TRUE, ts |-> ts, ids |-> "x"] :
            ts \in {<<1, 2>>, <<2, 1>>}}

\* what BhimAdapter.parse returns for the BHIM export
BhimExport == [kind |-> "result", success |-> TRUE, hasData |-> TRUE, ts |-> <<2>>, ids |-> "y"]

\* the AppRawData of an app, as the entry it makes in the map
RawEntry(app) == Entry(app, IF app = "GOOGLE_PAY" THEN gpExport ELSE BhimExport)

\* the keys of a Map, in iteration order
MapKeys(entries) == [i \in DOMAIN entries |-> entries[i].app]

\* Map.prototype.set: a known key keeps its place
MapSet(entries, entry) ==
    IF InSeq(entry.app, MapKeys(entries))
    THEN [i \in DOMAIN entries |-> IF entries[i].app = entry.app THEN entry ELSE entries[i]]
    ELSE Append(entries, entry)

\* Map.prototype.delete
MapDelete(entries, app) == SelectSeq(entries, LAMBDA e : e.app # app)

\* variant: the copy is the object the store already holds
AfterNewMap_SameObject(call, entries) == [call EXCEPT !.entries = entries]

\* lines 44, 61, 164, 181: the store gets a new Map object; a call that was
\* given the Map the store held keeps that Map, which is the store's no more
AfterNewMap(call, entries) == [call EXCEPT !.shared = FALSE]

\* the running calls after the store put a Map with these entries in place
\* of the Map it held
Replaced(calls, entries) ==
    {IF call.shared THEN AfterNewMap(call, entries) ELSE call : call \in calls}

\* variant: the app is added to the list without a look at the list
TrackUploaded_Always(apps, app) == Append(apps, app)

\* lines 50-53
TrackUploaded(apps, app) == IF InSeq(app, apps) THEN apps ELSE Append(apps, app)

\* what calculateAllInsights makes of a ParsedData
InsightsOf(data) == <<"insights", data.sources>>

\* a parseAllData call at its await: the entries of the Map it was given,
\* whether that Map is still the one the store holds, how many entries the
\* loop of parseAllAppData has taken, and the locals of that loop; `started`
\* remembers the entries the Map had when the call began, `iterated` the
\* entries the loop took
NewCall(entries) ==
    [shared |-> TRUE, entries |-> entries, idx |-> 0, cd |-> EmptyCombined, errs |-> <<>>,
     started |-> entries, iterated |-> <<>>]

\* lines 98-109: parseAllData up to its await, on the Map the store holds now
ParseAllDataBegins(entries, calls) ==
    IF entries = <<>>
    THEN /\ parsedData' = NullParsedData
         /\ insights' = <<>>
         /\ parsing' = calls
         /\ UNCHANGED <<isLoading, storeError>>
    ELSE /\ isLoading' = TRUE
         /\ storeError' = "null"
         /\ parsing' = calls \cup {NewCall(entries)}
         /\ UNCHANGED <<parsedData, insights>>

\* parseAllData would start a call that the bound has no room for
NoRoom(entries) == entries # <<>> /\ Cardinality(parsing) >= MaxInFlight

InitStore ==
    /\ storeMap = <<>>
    /\ uploadedApps = <<>>
    /\ parsedData = NullParsedData
    /\ isLoading = FALSE
    /\ storeError = "null"
    /\ insights = <<>>
    /\ parsing = {}
    /\ gpExport \in GpExports
    /\ legacyUsed = FALSE
    /\ OthersIdle("store")

\* lines 42-57, up to the await inside parseAllData
AddAppData ==
    \E app \in StoreApps :
        LET entries == MapSet(storeMap, RawEntry(app))
        IN /\ ~NoRoom(entries)
           /\ storeMap' = entries
           /\ uploadedApps' = TrackUploaded(uploadedApps, app)
           /\ ParseAllDataBegins(entries, Replaced(parsing, entries))
           /\ UNCHANGED <<gpExport, legacyUsed>>
           /\ UNCHANGED exceptStore

\* lines 59-71, up to the await inside parseAllData
RemoveAppData ==
    \E app \in StoreApps :
        LET entries == MapDelete(storeMap, app)
        IN /\ ~NoRoom(entries)
           /\ storeMap' = entries
           /\ uploadedApps' = SelectSeq(uploadedApps, LAMBDA a : a # app)
           /\ ParseAllDataBegins(entries, Replaced(parsing, entries))
           /\ UNCHANGED <<gpExport, legacyUsed>>
           /\ UNCHANGED exceptStore

\* lines 162-170
ClearAllData ==
    /\ storeMap' = <<>>
    /\ parsing' = Replaced(parsing, <<>>)
    /\ parsedData' = NullParsedData
    /\ insights' = <<>>
    /\ uploadedApps' = <<>>
    /\ storeError' = "null"
    /\ UNCHANGED <<isLoading, gpExport, legacyUsed>>
    /\ UNCHANGED exceptStore

\* lines 173-185
SetRawData ==
    /\ storeMap' = <<RawEntry("GOOGLE_PAY")>>
    /\ parsing' = Replaced(parsing, <<RawEntry("GOOGLE_PAY")>>)
    /\ uploadedApps' = <<"GOOGLE_PAY">>
    /\ legacyUsed' = TRUE
    /\ UNCHANGED <<parsedData, insights, isLoading, storeError, gpExport>>
    /\ UNCHANGED exceptStore

\* lines 213-292: the five collections as the format parsers give them, each
\* record tagged with Google Pay; nothing is sorted
LegacyParsedData(export) ==
    [transactions    |-> RecsOf("transactions", export.ts, export.ids, "GOOGLE_PAY"),
     groupExpenses   |-> RecsOf("groupExpenses", export.ts, export.ids, "GOOGLE_PAY"),
     cashbackRewards |-> RecsOf("cashbackRewards", export.ts, export.ids, "GOOGLE_PAY"),
     voucherRewards  |-> RecsOf("voucherRewards", export.ts, export.ids, "GOOGLE_PAY"),
     activities      |-> RecsOf("activities", export.ts, export.ids, "GOOGLE_PAY"),
     sources         |-> <<"GOOGLE_PAY">>]

\* lines 198-305
ParseRawData ==
    /\ legacyUsed' = TRUE
    /\ IF ~InSeq("GOOGLE_PAY", MapKeys(storeMap))
       THEN UNCHANGED <<parsedData, insights, storeError>>
       ELSE IF gpExport.success
       THEN /\ parsedData' = [present |-> TRUE, by |-> "parseRawData",
                              data |-> LegacyParsedData(gpExport)]
            /\ insights' = InsightsOf(LegacyParsedData(gpExport))
            /\ storeError' = "null"
       ELSE /\ storeError' = "Failed to parse data"
            /\ UNCHANGED <<parsedData, insights>>
    /\ UNCHANGED <<storeMap, uploadedApps, isLoading, parsing, gpExport>>
    /\ UNCHANGED exceptStore

\* MultiAppManager.ts lines 89-132: a call resumes after `await adapter.parse`
\* and takes the next entry of the Map it was given
ParseAllDataResumes ==
    \E call \in parsing :
        /\ call.idx < Len(call.entries)
        /\ LET entry == call.entries[call.idx + 1]
               r == ProcessEntry(call.cd, call.errs, entry)
           IN parsing' = (parsing \ {call}) \cup
                  {[call EXCEPT !.idx = call.idx + 1, !.cd = r.data, !.errs = r.errors,
                                !.iterated = Append(call.iterated, entry)]}
        /\ UNCHANGED <<storeMap, uploadedApps, parsedData, isLoading, storeError,
                       insights, gpExport, legacyUsed>>
        /\ UNCHANGED exceptStore

\* MultiAppManager.ts lines 134-145 and part_001 lines 111-122: the loop is
\* over, the call returns and parseAllData stores the result
ParseAllDataCompletes ==
    \E call \in parsing :
        LET result == ReturnValue(SortCombined(call.cd), call.errs)
        IN /\ call.idx >= Len(call.entries)
           /\ parsing' = parsing \ {call}
           /\ parsedData' = [present |-> TRUE, by |-> "parseAllData", data |-> result.data]
           /\ isLoading' = FALSE
           /\ insights' = InsightsOf(result.data)
           /\ storeError' = "null"
           /\ UNCHANGED <<storeMap, uploadedApps, gpExport, legacyUsed>>
           /\ UNCHANGED exceptStore

NextStore ==
    \/ AddAppData
    \/ RemoveAppData
    \/ ClearAllData
    \/ SetRawData
    \/ ParseRawData
    \/ ParseAllDataResumes
    \/ ParseAllDataCompletes

SpecStore == InitStore /\ [][NextStore]_vars

-----------------------------------------------------------------------------
(***************************************************************************)
(* BhimAdapter.detect, extract and parse on one file                       *)
(***************************************************************************)
\* lines 110-163: the result of parse and the format parser it used
ParseOfText(html) ==
    LET v == ChooseVariant(html)
    IN [returned |-> TRUE, success |-> v \in {"table", "xml"}, variant |-> v]

InitDet ==
    /\ detFile \in DetFiles
    /\ detResult = Undetected
    /\ detParsed = NotParsedYet
    /\ OthersIdle("det")

\* detect(file)
DetectFile ==
    /\ ~detResult.returned
    /\ detResult' = BhimDetect(detFile)
    /\ UNCHANGED <<detFile, detParsed>>
    /\ UNCHANGED exceptDet

\* lines 79-103 and 110-163: the file detect accepted is extracted and parsed
ExtractAndParse ==
    /\ detResult.returned
    /\ detResult.canHandle
    /\ ~detParsed.returned
    /\ detParsed' = ParseOfText(detFile.html)
    /\ UNCHANGED <<detFile, detResult>>
    /\ UNCHANGED exceptDet

NextDet == DetectFile \/ ExtractAndParse

SpecDet == InitDet /\ [][NextDet]_vars

-----------------------------------------------------------------------------
(***************************************************************************)
(* C1: if every app of a non-empty map fails (no adapter, parse returns    *)
(* success=false, or parse throws), parseAllAppData returns success=false. *)
(* The code returns success=true with empty collections (line 145).        *)
(***************************************************************************)
C1_AllFailGivesFailure ==
    (/\ MergeDone
     /\ rawDataByApp # <<>>
     /\ \A i \in DOMAIN rawDataByApp : AppFails(rawDataByApp[i]))
    => ~mergeResult.success

(***************************************************************************)
(* C2: a failing app (no adapter, success=false, throw) contributes no     *)
(* record to any collection and is not in sources, and the returned data   *)
(* is exactly the data returned for the map without that app.              *)
(***************************************************************************)
C2_FailingAppLeavesNoTrace ==
    MergeDone =>
        \A i \in DOMAIN rawDataByApp :
            AppFails(rawDataByApp[i]) =>
                /\ \A c \in Collections :
                      \A r \in Range(mergeResult.data[c]) :
                          r.sourceApp # rawDataByApp[i].app
                /\ ~InSeq(rawDataByApp[i].app, mergeResult.data.sources)
                /\ mergeResult.data = ParseAllAppData(WithoutEntry(rawDataByApp, i)).data

\* a failing app sits between two apps that each contributed records
C2_Witness ==
    /\ MergeDone
    /\ \E i, j, k \in DOMAIN rawDataByApp :
          /\ i < j /\ j < k
          /\ Contributes(rawDataByApp[i]) /\ ItemsOf(rawDataByApp[i], "transactions") # <<>>
          /\ AppFails(rawDataByApp[j])
          /\ Contributes(rawDataByApp[k]) /\ ItemsOf(rawDataByApp[k], "transactions") # <<>>

(***************************************************************************)
(* C3: the returned transactions, activities and groupExpenses are in      *)
(* non-increasing order of their date, and records with equal dates keep   *)
(* the order in which they were concatenated.                              *)
(* Fails for a record with an Invalid Date: every comparison with it       *)
(* returns NaN, so it separates the records around it.                     *)
(***************************************************************************)
NewestFirst(s) ==
    \A i, j \in DOMAIN s :
        (i < j /\ ValidTime(s[i]) /\ ValidTime(s[j])) => s[i].time >= s[j].time

PositionIn(s, r) == CHOOSE k \in DOMAIN s : s[k] = r

KeepsTies(sorted, concat) ==
    \A i, j \in DOMAIN concat :
        (i < j /\ concat[i].time = concat[j].time)
            => PositionIn(sorted, concat[i]) < PositionIn(sorted, concat[j])

SortedCollections == {"transactions", "activities", "groupExpenses"}

C3_SortedNewestFirst ==
    MergeDone =>
        \A c \in SortedCollections :
            /\ NewestFirst(mergeResult.data[c])
            /\ KeepsTies(mergeResult.data[c], Concatenated(rawDataByApp)[c])

\* what does hold: the order is right whenever every date is valid
C3_SortedWhenDatesValid ==
    MergeDone =>
        \A c \in SortedCollections :
            (\A r \in Range(mergeResult.data[c]) : ValidTime(r))
                => /\ NewestFirst(mergeResult.data[c])
                   /\ KeepsTies(mergeResult.data[c], Concatenated(rawDataByApp)[c])

(***************************************************************************)
(* C4: sources has no duplicate and holds exactly the app ids of the map   *)
(* whose adapter exists and whose parse returned success with data.        *)
(***************************************************************************)
C4_SourcesAreContributors ==
    MergeDone =>
        /\ NoDuplicates(mergeResult.data.sources)
        /\ Range(mergeResult.data.sources)
             = {rawDataByApp[i].app : i \in {k \in DOMAIN rawDataByApp : Contributes(rawDataByApp[k])}}

\* some apps of the map are sources and another one is not
C4_Witness ==
    /\ MergeDone
    /\ Len(mergeResult.data.sources) = 1
    /\ Len(rawDataByApp) = 3
    /\ \E i \in DOMAIN rawDataByApp :
          /\ rawDataByApp[i].parses.kind = "result"
          /\ ~rawDataByApp[i].parses.success
          /\ rawDataByApp[i].parses.hasData

(***************************************************************************)
(* C5: with no identifier shared between apps, every ordering of the same  *)
(* per-app data merges to the same elements in each of the five            *)
(* collections and to the same sources.                                    *)
(***************************************************************************)
NoIdCollisions(entries) ==
    \A i, j \in DOMAIN entries :
        (i # j /\ Contributes(entries[i]) /\ Contributes(entries[j])) =>
            \A c \in Collections :
                {r.id : r \in Range(ItemsOf(entries[i], c))}
                    \cap {r.id : r \in Range(ItemsOf(entries[j], c))} = {}

AsSets(cd) ==
    [c \in Collections \cup {"sources"} |-> Range(cd[c])]

C5_OrderIndependent ==
    (MergeDone /\ NoIdCollisions(rawDataByApp)) =>
        \A p \in SeqPerms(rawDataByApp) :
            AsSets(ParseAllAppData(p).data) = AsSets(mergeResult.data)

\* two apps contributed records, without a shared identifier
C5_Witness ==
    /\ MergeDone
    /\ NoIdCollisions(rawDataByApp)
    /\ \E i, j \in DOMAIN rawDataByApp :
          /\ i # j
          /\ Contributes(rawDataByApp[i]) /\ Len(ItemsOf(rawDataByApp[i], "transactions")) = 2
          /\ Contributes(rawDataByApp[j]) /\ Len(ItemsOf(rawDataByApp[j], "transactions")) = 2

(***************************************************************************)
(* C6: no cross-app deduplication: each returned collection has as many    *)
(* records as the contributing apps returned in total.                     *)
(***************************************************************************)
C6_NoCrossAppDedup ==
    MergeDone =>
        \A c \in Collections :
            Len(mergeResult.data[c]) = SumLen(rawDataByApp, c)

\* two returned transactions of different apps carry the same id
C6_Witness ==
    /\ MergeDone
    /\ \E i, j \in DOMAIN mergeResult.data.transactions :
          /\ mergeResult.data.transactions[i].id = mergeResult.data.transactions[j].id
          /\ mergeResult.data.transactions[i].sourceApp
                # mergeResult.data.transactions[j].sourceApp

-----------------------------------------------------------------------------
(***************************************************************************)
(* BhimAdapter.parse: claims                                               *)
(***************************************************************************)
BhimDone == bpc = "done" /\ bhimResult.returned

\* the payload has a table element and both markers of the embedded XML
BothVariants ==
    /\ bhimHtml.present
    /\ bhimHtml.hasTable
    /\ bhimHtml.hasVarData
    /\ bhimHtml.hasUpiTag

\* C7, as stated: a payload that satisfies both the table variant and the
\* embedded-XML variant is parsed through the embedded-XML path.
C7_BothVariantsParseAsXml == (BothVariants /\ BhimDone) => variant = "xml"

\* C7, amended: a payload that satisfies both the table variant and the
\* embedded-XML variant is parsed through the table path, never the XML path.
C7_BothVariantsParseAsTable == (BothVariants /\ BhimDone) => variant = "table"

\* a payload with both signatures was parsed and gave a transaction
C7_Witness ==
    /\ BothVariants
    /\ BhimDone
    /\ pass = 1
    /\ variant = "table"
    /\ bhimResult.success
    /\ bhimResult.transactions # <<>>

\* the nodes the loop of the chosen parser looks at: every Transaction element,
\* every tr row after the first that has at least 11 cells
IsRecord(n) ==
    /\ n \in DOMAIN nodesRead
    /\ variant = "table" => (n > 1 /\ nodesRead[n].cells >= 11)

\* the transaction was built from a record that is a debit and, in the table, a
\* successful one
FromSuccessfulDebit(tx) ==
    /\ IsRecord(tx.node)
    /\ nodesRead[tx.node].id = tx.id
    /\ nodesRead[tx.node].drCr = "DR"
    /\ variant = "table" => nodesRead[tx.node].status = "SUCCESS"

\* C8: every transaction emitted by parse comes from a debit record: a table row
\* with DR/CR = 'DR' and Status = 'SUCCESS', or an XML element with
\* BenefitType = 'DR'; credits and failed or pending rows are never emitted.
C8_OnlySuccessfulDebits ==
    /\ \A i \in DOMAIN transactions : FromSuccessfulDebit(transactions[i])
    /\ BhimDone => \A i \in DOMAIN bhimResult.transactions :
                       FromSuccessfulDebit(bhimResult.transactions[i])

\* a table with a failed debit and a successful one was parsed; one was emitted
C8_Witness ==
    /\ BhimDone
    /\ pass = 1
    /\ variant = "table"
    /\ \E m, n \in DOMAIN nodesRead :
          /\ IsRecord(m) /\ IsRecord(n)
          /\ nodesRead[m].drCr = "DR" /\ nodesRead[m].status = "FAILED"
          /\ nodesRead[n].drCr = "DR" /\ nodesRead[n].status = "SUCCESS"
          /\ nodesRead[m].id # nodesRead[n].id
    /\ Len(bhimResult.transactions) = 1

\* record n is the first record of the document that carries its identifier
IsFirstOccurrence(n) ==
    /\ IsRecord(n)
    /\ \A m \in 1..(n - 1) : IsRecord(m) => nodesRead[m].id # nodesRead[n].id

\* the first occurrences among the first n nodes, in document order
RECURSIVE FirstOccurrences(_)
FirstOccurrences(n) ==
    IF n = 0 THEN <<>>
    ELSE IF IsFirstOccurrence(n) THEN Append(FirstOccurrences(n - 1), nodesRead[n])
    ELSE FirstOccurrences(n - 1)

\* C9: within one parse pass only the first record carrying an identifier, in
\* document order, is retained and every later record with that identifier is
\* discarded; no two emitted transactions share an id.
C9_FirstOccurrenceOnly ==
    (variant \in {"table", "xml"}) =>
        /\ kept = FirstOccurrences(Len(nodesRead))
        /\ \A i \in DOMAIN transactions : IsFirstOccurrence(transactions[i].node)
        /\ \A i, j \in DOMAIN transactions :
              i # j => transactions[i].id # transactions[j].id

\* two successful debits with the same identifier were read; one was emitted
C9_Witness ==
    /\ BhimDone
    /\ pass = 1
    /\ \E m, n \in DOMAIN nodesRead :
          /\ m < n
          /\ IsRecord(m) /\ IsRecord(n)
          /\ nodesRead[m] = nodesRead[n]
          /\ nodesRead[m].drCr = "DR"
          /\ variant = "table" => nodesRead[m].status = "SUCCESS"
    /\ Len(bhimResult.transactions) = 1
    /\ bhimResult.transactions[1].node < Len(nodesRead)

\* a transaction without its position in the document
Emitted(txs) == [i \in DOMAIN txs |-> [id |-> txs[i].id, status |-> txs[i].status]]

\* C10: deduplication by identifier is idempotent: a parser given the records
\* its deduplication kept keeps the same records in the same order.
C10_DedupIdempotent ==
    (pass = 2 /\ BhimDone) =>
        /\ kept = firstPass.kept
        /\ Emitted(bhimResult.transactions) = Emitted(firstPass.transactions)

\* the first pass discarded a repeat, the second pass was given what was kept
C10_Witness ==
    /\ pass = 2
    /\ BhimDone
    /\ variant = "table"
    /\ kept # <<>>
    /\ Len(firstPass.nodes) > Len(firstPass.kept) + 1
    /\ \E m, n \in DOMAIN firstPass.nodes :
          /\ 1 < m /\ m < n
          /\ firstPass.nodes[m].cells >= 11
          /\ firstPass.nodes[m] = firstPass.nodes[n]

\* C11: when the payload takes the embedded-XML path and the embedded XML is
\* malformed (the DATA variable is not found, or the XML parser reports an
\* error), parse returns a failure, not success with no transactions.
C11_MalformedXmlFails ==
    (BhimDone /\ variant = "xml" /\ bhimHtml.xml # "ok") => ~bhimResult.success

\* the transaction has a valid timestamp and a numeric amount
Decoded(tx) == tx.time # NaN /\ tx.amount # NaN

\* C12: a record whose date or amount cannot be decoded is skipped: every
\* emitted transaction has a valid timestamp and a non-NaN amount.
C12_UndecodableSkipped ==
    /\ \A i \in DOMAIN transactions : Decoded(transactions[i])
    /\ BhimDone => \A i \in DOMAIN bhimResult.transactions :
                       Decoded(bhimResult.transactions[i])

\* C13: in the table parser the first row is skipped as header and any later
\* row whose number of cells is not 11 is skipped; no transaction comes from
\* such a row.
C13_MismatchedRowsSkipped ==
    (variant = "table") =>
        \A i \in DOMAIN transactions :
            /\ transactions[i].node > 1
            /\ nodesRead[transactions[i].node].cells = 11

\* record n is a debit and, in the table, a successful one
IsSuccessfulDebit(n) ==
    /\ IsRecord(n)
    /\ nodesRead[n].drCr = "DR"
    /\ variant = "table" => nodesRead[n].status = "SUCCESS"

\* C29: no successful debit is lost by the deduplication: for every payment id
\* that has a table row with DR/CR = 'DR' and Status = 'SUCCESS' (in the XML
\* variant an element with BenefitType = 'DR') the output holds a transaction
\* with that id, even when an earlier record with the same id is a credit or
\* a failed row.
C29_NoSuccessfulDebitLost ==
    (BhimDone /\ bhimResult.success) =>
        \A n \in DOMAIN nodesRead :
            IsSuccessfulDebit(n) =>
                \E i \in DOMAIN bhimResult.transactions :
                    bhimResult.transactions[i].id = nodesRead[n].id

\* a successful debit is lost only to an earlier record of the same id that is
\* not one
C29_LostOnlyToEarlierRecord ==
    (BhimDone /\ bhimResult.success) =>
        \A n \in DOMAIN nodesRead :
            IsSuccessfulDebit(n) =>
                \/ \E i \in DOMAIN bhimResult.transactions :
                      bhimResult.transactions[i].id = nodesRead[n].id
                \/ \E m \in 1 .. (n - 1) :
                      /\ IsRecord(m)
                      /\ nodesRead[m].id = nodesRead[n].id
                      /\ ~IsSuccessfulDebit(m)

-----------------------------------------------------------------------------
(***************************************************************************)
(* categorizeTransaction: claims                                           *)
(***************************************************************************)
\* entry k of the table has a keyword whose lower-cased form is a substring of
\* the lower-cased description
CategoryMatches(k) ==
    \E i \in DOMAIN categories[k].keywords :
        Includes(ToLowerCase(description), ToLowerCase(categories[k].keywords[i]))

\* C14: categorizeTransaction returns the first category, in declaration order,
\* that has a keyword whose lower-cased form is a substring of the lower-cased
\* description, and 'Others' when no category matches.
C14_FirstMatchingCategory ==
    (category # NotCalled) =>
        /\ (\A k \in DOMAIN categories : ~CategoryMatches(k)) => category = "Others"
        /\ \A k \in DOMAIN categories :
              (CategoryMatches(k) /\ \A m \in 1..(k - 1) : ~CategoryMatches(m))
                  => category = categories[k].category

\* a description with an upper-case letter that matches keywords of both
\* categories, the first through an upper-case keyword, was categorized
C14_Witness ==
    /\ category = "Food"
    /\ CategoryMatches(1) /\ CategoryMatches(2)
    /\ description = <<"b", "A", "b">>
    /\ categories[1].keywords = <<<<"A", "b">>>>

-----------------------------------------------------------------------------
(***************************************************************************)
(* The filters: claims                                                     *)
(***************************************************************************)
\* the designated date field of a record of collection c
DesignatedDate(c, record) ==
    CASE c = "transactions" -> record.time
      [] c = "activities" -> record.time
      [] c = "groupExpenses" -> record.creationTime
      [] c = "cashbackRewards" -> record.date
      [] c = "voucherRewards" -> record.expiryDate

\* the date is a valid date of the calendar year the filter names
InCalendarYear(date, year) ==
    /\ date # InvalidDate
    /\ \/ year = "2024" /\ date[1] = 2024
       \/ year = "2025" /\ date[1] = 2025

\* the records at the positions marked in keepAt, in order
RECURSIVE Restrict(_, _)
Restrict(items, keepAt) ==
    IF items = <<>> THEN <<>>
    ELSE (IF keepAt[1] THEN <<Head(items)>> ELSE <<>>)
         \o Restrict(Tail(items), Tail(keepAt))

\* C15: a year filter called with year Y returns exactly the input records
\* whose designated date field has calendar year Y, in input order; called
\* with 'all' it returns a collection with the same elements as the input.
C15_YearFilterExact ==
    (filterCall \in Collections) =>
        LET input == filterData[filterCall].items
            inYear == [i \in DOMAIN input |->
                          InCalendarYear(DesignatedDate(filterCall, input[i]),
                                         filterContext.year)]
        IN IF filterContext.year = "all"
           THEN filterResult.items = input
           ELSE filterResult.items = Restrict(input, inYear)

\* the transactions, dated 2024, 2025 and Invalid Date, were filtered by 2025
C15_Witness ==
    /\ filterCall = "transactions"
    /\ filterContext.year = "2025"
    /\ {filterData.transactions.items[i].time : i \in DOMAIN filterData.transactions.items}
          = Dates
    /\ Len(filterResult.items) = 1

\* C16: the app filter with ['all'] returns every input record; with specific
\* apps it returns exactly the records whose sourceApp is among them; applied
\* to its own output it returns the same records.
C16_AppFilterExact ==
    (filterCall = "filterByApp") =>
        LET input == filterData.transactions.items
            apps == filterContext.apps
            selected == [i \in DOMAIN input |->
                            \E j \in DOMAIN apps : apps[j] = input[i].sourceApp]
        IN /\ (apps = <<"all">>) => filterResult.items = input
           /\ (\A j \in DOMAIN apps : apps[j] # "all")
                => filterResult.items = Restrict(input, selected)
           /\ FilterByApp(filterResult, apps).items = filterResult.items

\* transactions of both apps were filtered by ['BHIM']; some were dropped
C16_Witness ==
    /\ filterCall = "filterByApp"
    /\ filterContext.apps = <<"BHIM">>
    /\ Len(filterData.transactions.items) = 3
    /\ Len(filterResult.items) = 2

\* C17: every collection returned by applyFilters and by the year filters is a
\* new collection, distinct from the corresponding input collection, for
\* every filter context including year 'all' and apps ['all'].
C17_ResultArraysAreNew ==
    /\ (filterCall = "applyFilters") =>
          \A c \in Collections : filterResult[c].ref # filterData[c].ref
    /\ (filterCall \in Collections) =>
          filterResult.ref # filterData[filterCall].ref

\* the app filter, then the year filter of the collection
AppThenYear(c) ==
    FilterByYear(c, FilterByApp(filterData[c], filterContext.apps), filterContext.year)

\* C18: year filtering and app filtering commute: applyFilters (year, then
\* app) returns the same records in every collection as the app filter
\* followed by the year filter.
C18_FiltersCommute ==
    (filterCall = "applyFilters") =>
        \A c \in Collections : filterResult[c].items = AppThenYear(c).items

\* applyFilters was called with a year and an app on transactions of which one
\* is dropped by the year only, one by the app only, and one is returned
C18_Witness ==
    /\ filterCall = "applyFilters"
    /\ filterContext = [year |-> "2025", apps |-> <<"BHIM">>]
    /\ filterData.transactions.items =
          << [time |-> <<2024, 12>>, sourceApp |-> "BHIM"],
             [time |-> <<2025, 1>>, sourceApp |-> "GOOGLE_PAY"],
             [time |-> <<2025, 1>>, sourceApp |-> "BHIM"] >>
    /\ Len(filterResult.transactions.items) = 1

-----------------------------------------------------------------------------
(***************************************************************************)
(* The Google Pay archive: claims                                          *)
(***************************************************************************)
GpDone == gpc = "done"

\* C19: processing a Google Pay archive in which none of the five logical
\* roles is found ends in a failure: the upload does not report success with
\* all collections empty and does not add the app to sources.
C19_NoRolesFails ==
    (GpDone /\ RolesFound(gpArchive) = {}) =>
        /\ ~gpProcessed.success \/ (gpMerged.returned /\ ~gpMerged.success)
        /\ \A i \in DOMAIN gpMerged.sources : gpMerged.sources[i] # "GOOGLE_PAY"

\* no format parser throws on the text of a role that is in the raw map
NoParserThrows == \A c \in Collections : ~(gpProcessed.rawData[c].text = "throws")

\* C20: a role absent from the archive is omitted from the raw payload map
\* without error, and parse on a raw map that lacks some roles returns success
\* with the collections of the absent roles empty and the collections of the
\* present roles populated from their payloads.
C20_AbsentRolesAreEmpty ==
    /\ (gpProcessed.returned /\ GooglePayDetect(gpArchive)) =>
          /\ gpProcessed.success
          /\ \A c \in Collections :
                gpProcessed.rawData[c].present <=> gpArchive.files[c].found
    /\ (gpParsed.kind = "result" /\ NoParserThrows) =>
          /\ gpParsed.success
          /\ \A c \in Collections :
                /\ ~gpArchive.files[c].found => gpParsed.data[c] = Present(<<>>)
                /\ (gpArchive.files[c].found /\ gpArchive.files[c].text = "records") =>
                      /\ Len(gpParsed.data[c].items) = 1
                      /\ gpParsed.data[c].items[1].kind = c
                      /\ gpParsed.data[c].items[1].sourceApp = "GOOGLE_PAY"

\* an archive with only the transactions CSV was extracted and parsed
C20_Witness ==
    /\ GpDone
    /\ RolesFound(gpArchive) = {"transactions"}
    /\ gpArchive.files["transactions"].text = "records"
    /\ gpParsed.success
    /\ Len(gpParsed.data["transactions"].items) = 1
    /\ \A c \in Collections \ {"transactions"} : gpParsed.data[c] = Present(<<>>)
    /\ gpMerged.success
    /\ Len(gpMerged.transactions) = 1

\* C22: in GooglePayAdapter.parse a structurally invalid payload of one role
\* fails only that role: its collection is empty, every other role of the raw
\* map is still parsed from its own payload, and the parse result is success.
C22_InvalidRoleFailsAlone ==
    (gpParsed.kind = "result" /\ NoParserThrows) =>
        \A c \in Collections :
            (gpProcessed.rawData[c].present /\ Rejected(gpProcessed.rawData[c])) =>
                /\ gpParsed.success
                /\ gpParsed.data[c] = Present(<<>>)
                /\ \A d \in Collections \ {c} :
                      (gpProcessed.rawData[d].present /\ Accepted(gpProcessed.rawData[d])) =>
                          gpParsed.data[d] = Present(TaggedRecords(d))

\* the group expenses JSON was rejected, the transactions CSV was parsed
C22_Witness ==
    /\ GpDone
    /\ NoParserThrows
    /\ gpProcessed.rawData["groupExpenses"].present
    /\ Rejected(gpProcessed.rawData["groupExpenses"])
    /\ gpProcessed.rawData["transactions"].present
    /\ Accepted(gpProcessed.rawData["transactions"])
    /\ gpParsed.success
    /\ gpParsed.data["groupExpenses"] = Present(<<>>)
    /\ gpParsed.data["transactions"] = Present(TaggedRecords("transactions"))
    /\ gpMerged.success
    /\ Len(gpMerged.transactions) = 1

-----------------------------------------------------------------------------
(***************************************************************************)
(* GooglePayAdapter.extract on a JSON entry: claims                        *)
(***************************************************************************)
\* the text with the prefix and one line feed taken off its head
WithoutPrefix(text) == SubSeq(text, Len(XssiPrefix) + 2, Len(text))

PrefixedWithLineBreak(text) ==
    /\ StartsWithPrefix(text)
    /\ Len(text) > Len(XssiPrefix)
    /\ text[Len(XssiPrefix) + 1] = "\n"

\* C21: a JSON payload that starts with the prefix )]}' and a line break is
\* extracted to the same raw text as the same payload without the prefix; a
\* payload without the prefix is extracted unchanged.
C21_PrefixedJsonSameAsBare ==
    extractedText.called =>
        /\ PrefixedWithLineBreak(zipEntry.text) =>
              extractedText.text = ExtractJson(zipEntry.role, WithoutPrefix(zipEntry.text))
        /\ ~StartsWithPrefix(zipEntry.text) => extractedText.text = zipEntry.text

\* the voucher entry whose text after the prefix line does not start
\* with a line break: the prefix line is taken off, other texts are unchanged
C21_VoucherPrefixStripped ==
    (extractedText.called /\ zipEntry.role = "voucherRewards") =>
        /\ (/\ PrefixedWithLineBreak(zipEntry.text)
            /\ DropLineBreaks(WithoutPrefix(zipEntry.text)) = WithoutPrefix(zipEntry.text))
              => extractedText.text = WithoutPrefix(zipEntry.text)
        /\ ~StartsWithPrefix(zipEntry.text) => extractedText.text = zipEntry.text

-----------------------------------------------------------------------------
(***************************************************************************)
(* MultiAppManager.processFile: claims                                     *)
(***************************************************************************)
\* C23: processFile returns a failure and never calls extract when no adapter
\* detects the file or when the detection requires a password and none is
\* supplied; a call with a password then reaches extract; an exception from
\* extract is returned as a failure result and never thrown.
C23_ProcessFileGuardsExtract ==
    \A i \in DOMAIN pfCalls :
        LET call == pfCalls[i]
            blocked == pfFile = "null"
                       \/ (pfFile = "requiresPassword" /\ NoPassword(call.password))
        IN /\ call.result.ended = "returned"
           /\ blocked => (~call.result.extractCalled /\ ~call.result.success)
           /\ (pfFile = "requiresPassword" /\ ~NoPassword(call.password)) =>
                  call.result.extractCalled
           /\ call.extractThrew => ~call.result.success
           /\ (call.result.extractCalled /\ ~call.extractThrew) => call.result.success

\* a protected file: refused without a password, then extract threw, then
\* extract returned
C23_Witness ==
    /\ pfFile = "requiresPassword"
    /\ Len(pfCalls) = 3
    /\ pfCalls[1].password = "undefined"
    /\ ~pfCalls[1].result.extractCalled
    /\ ~pfCalls[1].result.success
    /\ pfCalls[2].password = "secret"
    /\ pfCalls[2].extractThrew
    /\ pfCalls[2].result.ended = "returned"
    /\ ~pfCalls[2].result.success
    /\ pfCalls[3].password = "secret"
    /\ pfCalls[3].result.extractCalled
    /\ pfCalls[3].result.success

-----------------------------------------------------------------------------
(***************************************************************************)
(* The data store: claims                                                  *)
(***************************************************************************)
\* C24: the merge works on a snapshot it only reads: parseAllAppData never
\* adds, removes or replaces an entry of the map it was given, the store's
\* actions put a new Map in place of rawDataByApp instead of changing the one
\* a running merge holds, and so a merge in flight iterates exactly the
\* entries that were present when it started.
C24_MergeReadsSnapshot ==
    \A call \in parsing :
        /\ call.entries = call.started
        /\ call.idx <= Len(call.started)
        /\ call.iterated = SubSeq(call.started, 1, call.idx)
        /\ call.shared => storeMap = call.started

\* a merge of two apps has taken its first entry; the store holds another Map
\* by now, with other entries
C24_Witness ==
    \E call \in parsing :
        /\ Len(call.started) = 2
        /\ call.idx = 1
        /\ call.iterated = <<call.started[1]>>
        /\ ~call.shared
        /\ storeMap # call.started

\* C25: with only Google Pay in the registry, the legacy parseRawData leaves
\* the same parsedData as the adapter path (parseAllData, GooglePayAdapter.parse,
\* the merger): the same records in the same order, sources = [Google Pay].
C25_LegacyMatchesAdapterPath ==
    (/\ parsedData.present
     /\ parsedData.by = "parseRawData"
     /\ MapKeys(storeMap) = <<"GOOGLE_PAY">>) =>
        parsedData.data = ParseAllAppData(storeMap).data

\* the legacy path gives the records of the adapter path and the same sources;
\* only their order can differ
C25_SameRecordsUpToOrder ==
    (/\ parsedData.present
     /\ parsedData.by = "parseRawData"
     /\ MapKeys(storeMap) = <<"GOOGLE_PAY">>) =>
        /\ parsedData.data.sources = ParseAllAppData(storeMap).data.sources
        /\ \A c \in Collections :
              Range(parsedData.data[c]) = Range(ParseAllAppData(storeMap).data[c])

\* C26: once no parseAllData is in flight, parsedData reflects the current
\* rawDataByApp after any interleaving of addAppData, removeAppData and
\* clearAllData: it is null when the registry is empty, and otherwise its
\* sources are apps of the registry; a parse that started from an older
\* registry never overwrites the result of a newer one.
C26_ParsedDataFollowsRegistry ==
    (parsing = {} /\ ~legacyUsed) =>
        IF storeMap = <<>>
        THEN ~parsedData.present
        ELSE parsedData.present =>
                Range(parsedData.data.sources) \subseteq Range(MapKeys(storeMap))

\* C27: isLoading is true whenever at least one parseAllData is in flight on a
\* non-empty registry, and false once all of them have completed, overlapping
\* calls and failing apps included.
C27_LoadingWhileParsing ==
    /\ parsing # {} => isLoading
    /\ parsing = {} => ~isLoading

\* once every call has completed isLoading is false
C27_NotLoadingWhenIdle == parsing = {} => ~isLoading

\* C28: after every store action (addAppData, removeAppData, clearAllData,
\* setRawData) uploadedApps has no duplicate and holds exactly the keys of
\* rawDataByApp.
C28_UploadedAppsAreKeys ==
    /\ NoDuplicates(uploadedApps)
    /\ Range(uploadedApps) = Range(MapKeys(storeMap))

\* both apps were added, BHIM first, Google Pay a second time after that
C28_Witness ==
    /\ uploadedApps = <<"BHIM", "GOOGLE_PAY">>
    /\ MapKeys(storeMap) = <<"BHIM", "GOOGLE_PAY">>
    /\ Cardinality(parsing) = 2

-----------------------------------------------------------------------------
(***************************************************************************)
(* BhimAdapter.detect and parse: claims                                    *)
(***************************************************************************)
\* C30: detection and parsing agree: for every HTML content on which detect
\* returns canHandle = true (confidence 0.95 for the XML markers, 0.9 for the
\* table markers) parse of the extracted content returns success and uses the
\* variant that detection matched; in every other case detect returns
\* canHandle = false with confidence 0, and it never throws.
C30_DetectAndParseAgree ==
    /\ detResult.returned =>
          /\ ~detResult.threw
          /\ detResult.canHandle => detResult.confidence \in {"0.95", "0.9"}
          /\ ~detResult.canHandle => detResult.confidence = "0"
    /\ detParsed.returned =>
          /\ detParsed.success
          /\ detParsed.variant = MatchedVariant(detResult.confidence)

\* detect returns, without throwing, canHandle = true with 0.95 or 0.9 or
\* canHandle = false with 0; parse of an accepted text that has a table
\* element or the two XML signatures succeeds
C30_DetectReturns ==
    /\ detResult.returned =>
          /\ ~detResult.threw
          /\ detResult.canHandle => detResult.confidence \in {"0.95", "0.9"}
          /\ ~detResult.canHandle => detResult.confidence = "0"
    /\ (detParsed.returned
        /\ (detFile.html.hasTable \/ (detFile.html.hasVarData /\ detFile.html.hasUpiTag))) =>
          detParsed.success

====
